---------------------------- MODULE Spec2Model ----------------------------
(***************************************************************************)
(* Smart shopping cart of what2eat: the pipeline of                        *)
(* SmartShoppingCart.generate_shopping_list                                *)
(*   extraction -> classification -> quantity optimization ->              *)
(*   freshness prioritization -> recommendations -> tier bucketing         *)
(* over a weekly meal plan.  Text is modelled character by character:      *)
(* a Python str is a TLA+ string, read with Len, SubSeq and \o.            *)
(***************************************************************************)
EXTENDS Integers, Sequences, FiniteSets, TLC

VARIABLES
    categories,              \* self.categories of the cart
    returned,                \* what the calls made so far have returned
    conversion,              \* one call of _convert_quantity and its inverse
    pc,                      \* position inside generate_shopping_list
    weekly_plan,             \* the plan handed to generate_shopping_list
    user_preferences,        \* the preferences handed to it
    parse_log,               \* (text, result) of every _parse_ingredient call
    all_ingredients,         \* result of _extract_ingredients_from_plan
    classified_ingredients,  \* result of _classify_ingredients
    ingredient_groups,       \* groups built by _group_ingredients_by_name
    optimized_ingredients,   \* result of optimize_quantities
    freshness_prioritized,   \* result of prioritize_by_freshness
    recommendations,         \* result of _generate_recommendations
    shopping_list            \* the ShoppingList returned

vars == << categories, returned, conversion, pc, weekly_plan,
           user_preferences, parse_log, all_ingredients,
           classified_ingredients, ingredient_groups, optimized_ingredients,
           freshness_prioritized, recommendations, shopping_list >>

-----------------------------------------------------------------------------
(* Bounds of the model *)

\* Largest number of ingredient lines in a weekly plan.
MaxLines == 2

\* Largest number of ingredient lines in a weekly plan that also has a cell
\* of PlanExtras.
MaxGapLines == 1

\* Largest number of calls made on one cart.
MaxCalls == 3

-----------------------------------------------------------------------------
(* Characters and the str methods the code uses *)

Ch(s, i) == SubSeq(s, i, i)

CharsOf(s) == { Ch(s, i) : i \in 1..Len(s) }

DigitChars == CharsOf("0123456789")

UpperS == "ABCDEFGHIJKLMNOPQRSTUVWXYZ"

LowerS == "abcdefghijklmnopqrstuvwxyz"

\* \s of the re module, within the characters the model's texts use
SpaceChars == {" ", "\n", "\t"}

\* \w of the re module
WordChars == CharsOf(UpperS) \cup CharsOf(LowerS) \cup DigitChars \cup {"_"}

ToLowerCh == [c \in CharsOf(UpperS) |->
                 Ch(LowerS, CHOOSE i \in 1..26 : Ch(UpperS, i) = c)]

RECURSIVE Lower(_)
\* str.lower()
Lower(s) ==
    IF s = "" THEN ""
    ELSE LET c == Ch(s, 1)
         IN  (IF c \in DOMAIN ToLowerCh THEN ToLowerCh[c] ELSE c)
                 \o Lower(SubSeq(s, 2, Len(s)))

RECURSIVE LStrip(_)
LStrip(s) ==
    IF s # "" /\ Ch(s, 1) \in SpaceChars THEN LStrip(SubSeq(s, 2, Len(s))) ELSE s

RECURSIVE RStrip(_)
RStrip(s) ==
    IF s # "" /\ Ch(s, Len(s)) \in SpaceChars
    THEN RStrip(SubSeq(s, 1, Len(s) - 1)) ELSE s

\* str.strip()
Strip(s) == RStrip(LStrip(s))

\* the substring test `sub in s`
Contains(s, sub) ==
    \E i \in 1..(Len(s) - Len(sub) + 1) : SubSeq(s, i, i + Len(sub) - 1) = sub

RECURSIVE Replace(_, _)
\* str.replace(old, ''): every non-overlapping occurrence of old, scanning
\* from the left, is removed (a text without any is returned as it is)
Replace(s, old) ==
    IF ~Contains(s, old) THEN s
    ELSE IF SubSeq(s, 1, Len(old)) = old
         THEN Replace(SubSeq(s, Len(old) + 1, Len(s)), old)
         ELSE Ch(s, 1) \o Replace(SubSeq(s, 2, Len(s)), old)

RECURSIVE SpanEnd(_, _, _)
\* the index just after the longest run of characters of cls that starts at
\* index i of s (i itself when there is none)
SpanEnd(s, i, cls) ==
    IF i <= Len(s) /\ Ch(s, i) \in cls THEN SpanEnd(s, i + 1, cls) ELSE i

RECURSIVE CollapseSpaces(_)
\* re.sub(r'\s+', ' ', s)
CollapseSpaces(s) ==
    IF s = "" THEN ""
    ELSE IF Ch(s, 1) \in SpaceChars
         THEN " " \o CollapseSpaces(SubSeq(s, SpanEnd(s, 1, SpaceChars), Len(s)))
         ELSE Ch(s, 1) \o CollapseSpaces(SubSeq(s, 2, Len(s)))

-----------------------------------------------------------------------------
(* SmartShoppingCart._parse_ingredient *)

\* Optional[...]: None is the empty sequence, a value v is <<v>>
None == << >>

Some(v) == << v >>

\* (.+)$ on the rest of the text: "." takes any character but a line break,
\* "$" stands at the end or before a line break that ends the text
DotPlusToEnd(rest) ==
    /\ rest # ""
    /\ Ch(rest, 1) # "\n"
    /\ \A i \in 1..Len(rest) : Ch(rest, i) = "\n" => i = Len(rest)

\* \s+(\w+)\s+(.+)$ after a number that ends just before index i
UnitAndName(text, quantity, i) ==
    LET u0 == SpanEnd(text, i, SpaceChars)
        u1 == SpanEnd(text, u0, WordChars)
        n0 == SpanEnd(text, u1, SpaceChars)
        rest == SubSeq(text, n0, Len(text))
    IN  IF u0 > i /\ u1 > u0 /\ n0 > u1 /\ DotPlusToEnd(rest)
        THEN Some([quantity |-> quantity,
                   unit |-> SubSeq(text, u0, u1 - 1),
                   name |-> rest])
        ELSE None

\* r'^(\d+/\d+)\s+(\w+)\s+(.+)$'
FractionForm(text) ==
    LET a == SpanEnd(text, 1, DigitChars)
        b == SpanEnd(text, a + 1, DigitChars)
    IN  IF a > 1 /\ a <= Len(text) /\ Ch(text, a) = "/" /\ b > a + 1
        THEN UnitAndName(text, SubSeq(text, 1, b - 1), b)
        ELSE None

\* r'^(\d+\.\d+)\s+(\w+)\s+(.+)$'
DecimalForm(text) ==
    LET a == SpanEnd(text, 1, DigitChars)
        b == SpanEnd(text, a + 1, DigitChars)
    IN  IF a > 1 /\ a <= Len(text) /\ Ch(text, a) = "." /\ b > a + 1
        THEN UnitAndName(text, SubSeq(text, 1, b - 1), b)
        ELSE None

\* r'^(\d+)\s+(\w+)\s+(.+)$'
IntegerForm(text) ==
    LET a == SpanEnd(text, 1, DigitChars)
    IN  IF a > 1 THEN UnitAndName(text, SubSeq(text, 1, a - 1), a) ELSE None

\* r'^(.+)$'
BareForm(text) ==
    IF DotPlusToEnd(text)
    THEN Some([quantity |-> "1", unit |-> "", name |-> text])
    ELSE None

\* the forms with the bare name tried first
patterns_bare_first == << "bare", "fraction", "decimal", "integer" >>

\* the list `patterns`, in its order
patterns == << "fraction", "decimal", "integer", "bare" >>

MatchPattern(pattern, text) ==
    CASE pattern = "fraction" -> FractionForm(text)
      [] pattern = "decimal"  -> DecimalForm(text)
      [] pattern = "integer"  -> IntegerForm(text)
      [] pattern = "bare"     -> BareForm(text)

RECURSIVE FirstMatch(_, _)
\* the loop over patterns: the first one that matches returns
FirstMatch(text, k) ==
    IF k > Len(patterns) THEN None
    ELSE IF MatchPattern(patterns[k], text) # None
         THEN MatchPattern(patterns[k], text)
         ELSE FirstMatch(text, k + 1)

parse_ingredient(ingredient_text) ==
    IF ingredient_text = "" \/ Strip(ingredient_text) = "" THEN None
    ELSE FirstMatch(Strip(ingredient_text), 1)

-----------------------------------------------------------------------------
(* Searching a rule table: re.search(r'\b(a|b\s+c|...)\b', name)            *)
(* Every alternative of the tables is a sequence of words joined by \s+,    *)
(* and \b stands at both ends, so an alternative is found exactly where     *)
(* its words are whole, consecutive words of the name with nothing but      *)
(* white space between them.  A table is the set of its alternatives.       *)

RECURSIVE Tokens(_, _)
\* the words (longest runs of \w) of s from index i on, each with the text
\* that separates it from the word before
Tokens(s, i) ==
    LET w0 == SpanEnd(s, i, CharsOf(s) \ WordChars)
        w1 == SpanEnd(s, w0, WordChars)
    IN  IF w0 > Len(s) THEN << >>
        ELSE << [word |-> SubSeq(s, w0, w1 - 1), sep |-> SubSeq(s, i, w0 - 1)] >>
                 \o Tokens(s, w1)

AltAt(alt, toks, i) ==
    \A j \in 1..Len(alt) :
        /\ toks[i + j - 1].word = alt[j]
        /\ j > 1 => CharsOf(toks[i + j - 1].sep) \subseteq SpaceChars

\* some pattern of the table is found in the name
Search(table, name) ==
    LET toks == Tokens(name, 1)
    IN  \E alt \in table :
            \E i \in 1..(Len(toks) - Len(alt) + 1) : AltAt(alt, toks, i)

-----------------------------------------------------------------------------
(* IngredientClassifier *)

\* self.essential_patterns: proteins, main_vegetables, grains
essential_patterns ==
    { <<"chicken">>, <<"beef">>, <<"pork">>, <<"fish">>, <<"salmon">>,
      <<"tuna">>, <<"shrimp">>, <<"eggs">>, <<"tofu">>, <<"beans">>,
      <<"lentils">>, <<"ground", "beef">>, <<"ground", "turkey">>,
      <<"ground", "chicken">>, <<"ground", "pork">>, <<"chicken", "breast">>,
      <<"chicken", "thigh">>, <<"chicken", "wing">>,
      <<"chicken", "drumstick">>, <<"beef", "steak">>, <<"beef", "roast">>,
      <<"beef", "chuck">>, <<"beef", "sirloin">>, <<"onion">>, <<"garlic">>,
      <<"tomato">>, <<"potato">>, <<"carrot">>, <<"celery">>,
      <<"bell", "pepper">>, <<"mushroom">>, <<"broccoli">>,
      <<"cauliflower">>, <<"spinach">>, <<"lettuce">>, <<"cabbage">>,
      <<"zucchini">>, <<"corn">>, <<"peas">>, <<"green", "beans">>,
      <<"asparagus">>, <<"eggplant">>, <<"rice">>, <<"pasta">>, <<"bread">>,
      <<"flour">>, <<"quinoa">>, <<"barley">>, <<"oats">>, <<"noodles">>,
      <<"spaghetti">>, <<"penne">>, <<"macaroni">>, <<"linguine">>,
      <<"fettuccine">> }

\* self.pantry_staples_patterns: oils_fats, spices_herbs, condiments, baking
pantry_staples_patterns ==
    { <<"olive", "oil">>, <<"vegetable", "oil">>, <<"butter">>,
      <<"margarine">>, <<"shortening">>, <<"coconut", "oil">>,
      <<"sesame", "oil">>, <<"canola", "oil">>, <<"salt">>, <<"pepper">>,
      <<"garlic", "powder">>, <<"onion", "powder">>, <<"paprika">>,
      <<"oregano">>, <<"basil">>, <<"thyme">>, <<"rosemary">>, <<"parsley">>,
      <<"cilantro">>, <<"cumin">>, <<"coriander">>, <<"chili", "powder">>,
      <<"cayenne">>, <<"red", "pepper">>, <<"ginger">>, <<"turmeric">>,
      <<"curry", "powder">>, <<"bay", "leaves">>, <<"soy", "sauce">>,
      <<"vinegar">>, <<"ketchup">>, <<"mustard">>, <<"mayonnaise">>,
      <<"worcestershire">>, <<"hot", "sauce">>, <<"barbecue", "sauce">>,
      <<"lemon", "juice">>, <<"lime", "juice">>, <<"balsamic", "vinegar">>,
      <<"sugar">>, <<"brown", "sugar">>, <<"baking", "powder">>,
      <<"baking", "soda">>, <<"vanilla", "extract">>, <<"cocoa", "powder">>,
      <<"chocolate", "chips">> }

\* self.fresh_patterns
fresh_patterns ==
    { <<"milk">>, <<"cream">>, <<"yogurt">>, <<"cheese">>, <<"butter">>,
      <<"banana">>, <<"apple">>, <<"orange">>, <<"lemon">>, <<"lime">>,
      <<"berries">>, <<"avocado">>, <<"lettuce">>, <<"spinach">>,
      <<"herbs">>, <<"cilantro">>, <<"parsley">>, <<"fresh", "basil">>,
      <<"fresh", "oregano">>, <<"fresh", "thyme">>, <<"fresh", "rosemary">> }

\* self.shelf_stable_patterns
shelf_stable_patterns ==
    { <<"canned">>, <<"dried">>, <<"frozen">>, <<"jarred">>, <<"pasta">>,
      <<"rice">>, <<"beans">>, <<"lentils">>, <<"nuts">>, <<"seeds">>,
      <<"flour">>, <<"sugar">>, <<"salt">>, <<"spices">>,
      <<"herbs", "dried">>, <<"oil">>, <<"vinegar">>, <<"soy", "sauce">>,
      <<"hot", "sauce">> }

\* self.high_freshness of the classifier
high_freshness ==
    { <<"milk">>, <<"cream">>, <<"yogurt">>, <<"fresh", "cheese">>,
      <<"cottage", "cheese">>, <<"banana">>, <<"berries">>, <<"avocado">>,
      <<"lettuce">>, <<"spinach">>, <<"cilantro">>, <<"parsley">>,
      <<"fresh", "basil">>, <<"fresh", "oregano">>, <<"fresh", "thyme">>,
      <<"fresh", "rosemary">>, <<"fresh", "mint">>, <<"ground", "beef">>,
      <<"ground", "turkey">>, <<"ground", "chicken">>, <<"ground", "pork">> }

\* self.medium_freshness of the classifier
medium_freshness ==
    { <<"eggs">>, <<"hard", "cheese">>, <<"butter">>, <<"apples">>,
      <<"oranges">>, <<"lemons">>, <<"limes">>, <<"carrots">>, <<"celery">>,
      <<"bell", "peppers">>, <<"onions">>, <<"garlic">>, <<"potatoes">>,
      <<"sweet", "potatoes">>, <<"cabbage">>, <<"broccoli">>,
      <<"cauliflower">> }

\* self.low_freshness of the classifier
low_freshness ==
    { <<"canned">>, <<"dried">>, <<"frozen">>, <<"jarred">>, <<"pickled">>,
      <<"rice">>, <<"pasta">>, <<"flour">>, <<"sugar">>, <<"salt">>,
      <<"spices">>, <<"herbs", "dried">>, <<"oil">>, <<"vinegar">>,
      <<"soy", "sauce">>, <<"hot", "sauce">>, <<"ketchup">>, <<"mustard">>,
      <<"nuts">>, <<"seeds">>, <<"beans">>, <<"lentils">>, <<"quinoa">>,
      <<"barley">>, <<"oats">> }

\* self.critical_patterns
critical_patterns ==
    { <<"flour">>, <<"eggs">>, <<"yeast">>, <<"baking", "powder">>,
      <<"baking", "soda">>, <<"rice">>, <<"pasta">>, <<"bread">>,
      <<"tortillas">>, <<"chicken">>, <<"beef">>, <<"pork">>, <<"fish">>,
      <<"tofu">>, <<"beans">>, <<"onion">>, <<"garlic">>,
      <<"tomato", "sauce">>, <<"broth">>, <<"stock">> }

\* self.important_patterns
important_patterns ==
    { <<"cheese">>, <<"butter">>, <<"cream">>, <<"milk">>, <<"vegetables">>,
      <<"herbs">>, <<"spices">>, <<"oil">>, <<"vinegar">>,
      <<"lemon", "juice">>, <<"lime", "juice">>, <<"salt">>, <<"pepper">>,
      <<"garlic", "powder">>, <<"onion", "powder">> }

\* self.optional_patterns
optional_patterns ==
    { <<"garnish">>, <<"topping">>, <<"sprinkle">>, <<"optional">>,
      <<"for", "garnish">>, <<"for", "serving">>, <<"extra">>,
      <<"additional">>, <<"more">> }

\* _determine_category, on the tables it is given in the order it asks them
CategoryBy(essential, pantry, fresh, shelf, ingredient_name) ==
    IF Search(essential, ingredient_name) THEN "essential"
    ELSE IF Search(pantry, ingredient_name) THEN "pantry_staples"
    ELSE IF Search(fresh, ingredient_name) THEN "fresh_priority"
    ELSE IF Search(shelf, ingredient_name) THEN "shelf_stable"
    ELSE "essential"

\* the tables searched with the fresh one first
determine_category_fresh_first(ingredient_name) ==
    IF Search(fresh_patterns, ingredient_name) THEN "fresh_priority"
    ELSE CategoryBy(essential_patterns, pantry_staples_patterns,
                    fresh_patterns, shelf_stable_patterns, ingredient_name)

determine_category(ingredient_name) ==
    CategoryBy(essential_patterns, pantry_staples_patterns, fresh_patterns,
               shelf_stable_patterns, ingredient_name)

determine_importance(ingredient_name) ==
    IF Search(critical_patterns, ingredient_name) THEN "critical"
    ELSE IF Search(important_patterns, ingredient_name) THEN "important"
    ELSE IF Search(optional_patterns, ingredient_name) THEN "optional"
    ELSE "important"

determine_freshness_priority(ingredient_name) ==
    IF Search(high_freshness, ingredient_name) THEN "high"
    ELSE IF Search(medium_freshness, ingredient_name) THEN "medium"
    ELSE IF Search(low_freshness, ingredient_name) THEN "low"
    ELSE "medium"

\* the IngredientClassification fields that _classify_ingredients reads
classify_ingredient(ingredient_name) ==
    LET name_lower == Strip(Lower(ingredient_name))
    IN  [category |-> determine_category(name_lower),
         importance |-> determine_importance(name_lower),
         freshness_priority |-> determine_freshness_priority(name_lower)]

-----------------------------------------------------------------------------
(* FreshnessAnalyzer *)

\* self.high_freshness['ingredients'] of the analyzer
analyzer_high_ingredients ==
    { <<"milk">>, <<"cream">>, <<"yogurt">>, <<"fresh", "cheese">>,
      <<"cottage", "cheese">>, <<"ricotta">>, <<"banana">>, <<"berries">>,
      <<"avocado">>, <<"lettuce">>, <<"spinach">>, <<"arugula">>,
      <<"watercress">>, <<"fresh", "basil">>, <<"fresh", "oregano">>,
      <<"fresh", "thyme">>, <<"fresh", "rosemary">>, <<"fresh", "mint">>,
      <<"fresh", "cilantro">>, <<"fresh", "parsley">>, <<"ground", "beef">>,
      <<"ground", "turkey">>, <<"ground", "chicken">>, <<"ground", "pork">>,
      <<"ground", "lamb">>, <<"fresh", "fish">>, <<"fresh", "salmon">>,
      <<"fresh", "tuna">>, <<"fresh", "cod">>, <<"fresh", "shrimp">>,
      <<"fresh", "scallops">>, <<"soft", "cheese">>, <<"brie">>,
      <<"camembert">>, <<"goat", "cheese">> }

\* self.medium_freshness['ingredients'] of the analyzer
analyzer_medium_ingredients ==
    { <<"eggs">>, <<"hard", "cheese">>, <<"cheddar">>, <<"swiss">>,
      <<"parmesan">>, <<"butter">>, <<"apples">>, <<"oranges">>,
      <<"lemons">>, <<"limes">>, <<"grapefruit">>, <<"pears">>,
      <<"carrots">>, <<"celery">>, <<"bell", "peppers">>, <<"cucumber">>,
      <<"zucchini">>, <<"onions">>, <<"garlic">>, <<"ginger">>,
      <<"potatoes">>, <<"sweet", "potatoes">>, <<"cabbage">>, <<"broccoli">>,
      <<"cauliflower">>, <<"brussels", "sprouts">>, <<"whole", "chicken">>,
      <<"whole", "beef">>, <<"whole", "pork">>, <<"whole", "fish">>,
      <<"bacon">>, <<"sausage">>, <<"deli", "meat">> }

\* self.low_freshness['ingredients'] of the analyzer
analyzer_low_ingredients ==
    { <<"canned">>, <<"dried">>, <<"frozen">>, <<"jarred">>, <<"pickled">>,
      <<"rice">>, <<"pasta">>, <<"flour">>, <<"sugar">>, <<"salt">>,
      <<"spices">>, <<"herbs", "dried">>, <<"oil">>, <<"vinegar">>,
      <<"soy", "sauce">>, <<"hot", "sauce">>, <<"ketchup">>, <<"mustard">>,
      <<"nuts">>, <<"seeds">>, <<"beans">>, <<"lentils">>, <<"quinoa">>,
      <<"barley">>, <<"oats">>, <<"honey">>, <<"maple", "syrup">>,
      <<"molasses">>, <<"jam">>, <<"jelly">>, <<"bread">>, <<"tortillas">>,
      <<"crackers">>, <<"cookies">> }

\* self.high_freshness['shelf_life']
high_shelf_life == 3

\* self.medium_freshness['shelf_life']
medium_shelf_life == 10

\* self.low_freshness['shelf_life']
low_shelf_life == 60

\* shelf_life_days of the default FreshnessInfo
default_shelf_life == 14

\* _get_storage_tips: the key of self.storage_tips whose list is returned
get_storage_tips(ingredient_name) ==
    LET name_lower == Lower(ingredient_name)
        any(words) == \E word \in words : Contains(name_lower, word)
    IN  IF any({"milk", "cream", "yogurt", "cheese", "butter"}) THEN "dairy"
        ELSE IF any({"apple", "orange", "lemon", "carrot", "celery", "onion",
                     "garlic"}) THEN "produce"
        ELSE IF any({"basil", "oregano", "thyme", "rosemary", "cilantro",
                     "parsley"}) THEN "herbs"
        ELSE IF any({"chicken", "beef", "pork", "fish", "meat"}) THEN "meat"
        ELSE "pantry"

analyze_freshness(ingredient_name) ==
    LET name_lower == Strip(Lower(ingredient_name))
    IN  IF Search(analyzer_high_ingredients, name_lower)
        THEN [shelf_life_days |-> high_shelf_life,
              freshness_priority |-> "high",
              storage_tips |-> get_storage_tips(name_lower),
              warning_message |-> Some("Buy last - expires quickly!")]
        ELSE IF Search(analyzer_medium_ingredients, name_lower)
        THEN [shelf_life_days |-> medium_shelf_life,
              freshness_priority |-> "medium",
              storage_tips |-> get_storage_tips(name_lower),
              warning_message |-> Some("Use within 1-2 weeks")]
        ELSE IF Search(analyzer_low_ingredients, name_lower)
        THEN [shelf_life_days |-> low_shelf_life,
              freshness_priority |-> "low",
              storage_tips |-> get_storage_tips(name_lower),
              warning_message |-> None]
        ELSE [shelf_life_days |-> default_shelf_life,
              freshness_priority |-> "medium",
              storage_tips |-> get_storage_tips(name_lower),
              warning_message |-> Some("Check expiration date")]

-----------------------------------------------------------------------------
(* Numbers.  The quantities the pipeline parses, sums and rounds are held   *)
(* as the exact rational they stand for, <<numerator, denominator>> in      *)
(* lowest terms.  The product and the quotient of _convert_quantity are     *)
(* binary64 operations, modelled further down bit for bit.                  *)

RECURSIVE GCD(_, _)
GCD(a, b) == IF b = 0 THEN a ELSE GCD(b, a % b)

Rat(n, d) == LET g == GCD(IF n < 0 THEN -n ELSE n, d)
             IN  IF n = 0 THEN << 0, 1 >> ELSE << n \div g, d \div g >>

\* an accumulation that keeps the last term instead of the sum
RatAdd_keeps_last(x, y) == y

RatAdd(x, y) == Rat(x[1] * y[2] + y[1] * x[2], x[2] * y[2])

RatMul(x, y) == Rat(x[1] * y[1], x[2] * y[2])

RatDiv(x, y) == Rat(x[1] * y[2], x[2] * y[1])

RatLess(x, y) == x[1] * y[2] < y[1] * x[2]

RECURSIVE Pow10(_)
Pow10(k) == IF k = 0 THEN 1 ELSE 10 * Pow10(k - 1)

\* round(x, ndigits) for x >= 0: to the nearest, a tie to the even neighbour
Round(x, ndigits) ==
    LET scaled == x[1] * Pow10(ndigits)
        q == scaled \div x[2]
        r == scaled % x[2]
        up == 2 * r > x[2] \/ (2 * r = x[2] /\ q % 2 = 1)
    IN  Rat(IF up THEN q + 1 ELSE q, Pow10(ndigits))

DigitS == "0123456789"

DigitVal(c) == (CHOOSE i \in 1..10 : Ch(DigitS, i) = c) - 1

IsDigits(s) == s # "" /\ CharsOf(s) \subseteq DigitChars

RECURSIVE NatOf(_)
\* the number a string of digits writes
NatOf(s) ==
    IF s = "" THEN 0
    ELSE 10 * NatOf(SubSeq(s, 1, Len(s) - 1)) + DigitVal(Ch(s, Len(s)))

RECURSIVE NatStr(_)
NatStr(n) ==
    IF n < 10 THEN Ch(DigitS, n + 1)
    ELSE NatStr(n \div 10) \o Ch(DigitS, (n % 10) + 1)

RECURSIVE FracDigits(_, _, _)
\* the decimals of r / d (r < d), to the last one that is not zero, at most k
FracDigits(r, d, k) ==
    IF r = 0 \/ k = 0 THEN ""
    ELSE NatStr((10 * r) \div d) \o FracDigits((10 * r) % d, d, k - 1)

\* str(x) of a float x >= 0: "1.5", "3.0", "0.188"; a float whose decimals
\* do not end is written with its first 16
FloatStr(x) ==
    LET frac == FracDigits(x[1] % x[2], x[2], 16)
    IN  NatStr(x[1] \div x[2]) \o "." \o (IF frac = "" THEN "0" ELSE frac)

\* index of the first occurrence of the character c in s, 0 when there is none
IndexOf(s, c) ==
    IF \E i \in 1..Len(s) : Ch(s, i) = c
    THEN CHOOSE i \in 1..Len(s) : Ch(s, i) = c /\ \A j \in 1..(i - 1) : Ch(s, j) # c
    ELSE 0

RECURSIVE Split(_, _)
\* str.split(c)
Split(s, c) ==
    LET i == IndexOf(s, c)
    IN  IF i = 0 THEN << s >>
        ELSE << SubSeq(s, 1, i - 1) >> \o Split(SubSeq(s, i + 1, Len(s)), c)

\* float(s) on the number texts the parser produces, digits or
\* digits.digits; None stands for the ValueError any other text raises
FloatOf(s) ==
    LET i == IndexOf(s, ".")
        whole == SubSeq(s, 1, i - 1)
        frac == SubSeq(s, i + 1, Len(s))
    IN  IF IsDigits(s) THEN Some(Rat(NatOf(s), 1))
        ELSE IF i > 0 /\ IsDigits(whole) /\ IsDigits(frac)
        THEN Some(Rat(NatOf(whole) * Pow10(Len(frac)) + NatOf(frac),
                      Pow10(Len(frac))))
        ELSE None

\* float(Fraction(s)) on digits/digits; None stands for the ValueError of
\* another text and for the ZeroDivisionError of a zero denominator
FractionOf(s) ==
    LET i == IndexOf(s, "/")
        num == SubSeq(s, 1, i - 1)
        den == SubSeq(s, i + 1, Len(s))
    IN  IF i > 0 /\ IsDigits(num) /\ IsDigits(den) /\ NatOf(den) # 0
        THEN Some(Rat(NatOf(num), NatOf(den)))
        ELSE None

-----------------------------------------------------------------------------
(* Binary64.  A float above zero is [m, e], standing for m * 2^e with       *)
(* 2^52 <= m < 2^53; zero is m = 0, e = 0.  A natural number such as m is   *)
(* a sequence of limbs, lowest first, each below LimbBase.  The results of  *)
(* * and / are rounded to the nearest float, a tie to the even mantissa     *)
(* (the range of exponents is not modelled: no quantity nears its ends).    *)

LimbBase == 2^14

Limb(N, i) == IF i \in DOMAIN N THEN N[i] ELSE 0

\* the limbs of an integer 0 <= n < 2^31
BigOfInt(n) ==
    << n % LimbBase, (n \div LimbBase) % LimbBase,
       n \div (LimbBase * LimbBase) >>

BigIsZero(N) == \A i \in DOMAIN N : N[i] = 0

RECURSIVE IntBitLen(_)
IntBitLen(n) == IF n = 0 THEN 0 ELSE 1 + IntBitLen(n \div 2)

\* the number of bits of N: the place of its highest bit that is 1
BitLen(N) ==
    IF BigIsZero(N) THEN 0
    ELSE LET top == CHOOSE i \in DOMAIN N :
                        N[i] # 0 /\ \A j \in DOMAIN N : j > i => N[j] = 0
         IN  14 * (top - 1) + IntBitLen(N[top])

\* bit k of N, the lowest being bit 0
BitOf(N, k) == (Limb(N, (k \div 14) + 1) \div 2^(k % 14)) % 2

\* the s lowest bits of N are 0
LowZero(N, s) == \A k \in 0..(s - 1) : BitOf(N, k) = 0

\* N * 2^s in len limbs
ShiftLeft(N, s, len) ==
    [i \in 1..len |->
        ((Limb(N, i - (s \div 14)) * 2^(s % 14)) % LimbBase)
            + (Limb(N, i - (s \div 14) - 1) \div 2^(14 - (s % 14)))]

\* N \div 2^s in len limbs
ShiftRight(N, s, len) ==
    [i \in 1..len |->
        (Limb(N, i + (s \div 14)) \div 2^(s % 14))
            + ((Limb(N, i + (s \div 14) + 1) % 2^(s % 14)) * 2^(14 - (s % 14)))]

RECURSIVE IncFrom(_, _)
\* N + LimbBase^(k-1)
IncFrom(N, k) ==
    IF k > Len(N) THEN N
    ELSE IF N[k] = LimbBase - 1 THEN IncFrom([N EXCEPT ![k] = 0], k + 1)
    ELSE [N EXCEPT ![k] = @ + 1]

\* a >= b, for a and b of one length
BigGE(a, b) ==
    \/ a = b
    \/ \E i \in DOMAIN a :
          a[i] > b[i] /\ \A j \in DOMAIN a : j > i => a[j] = b[j]

RECURSIVE SubFrom(_, _, _, _)
\* the limbs of a - b from the k-th on, for a >= b of one length
SubFrom(a, b, k, borrow) ==
    IF k > Len(a) THEN << >>
    ELSE LET d == a[k] - b[k] - borrow
         IN  IF d < 0 THEN << d + LimbBase >> \o SubFrom(a, b, k + 1, 1)
             ELSE << d >> \o SubFrom(a, b, k + 1, 0)

RECURSIVE ColumnSum(_, _, _, _)
\* the sum of a[i] * b[k + 1 - i] over the i from i on
ColumnSum(a, b, k, i) ==
    IF i > Len(a) THEN 0
    ELSE (IF k + 1 - i \in DOMAIN b THEN a[i] * b[k + 1 - i] ELSE 0)
             + ColumnSum(a, b, k, i + 1)

RECURSIVE MulFrom(_, _, _, _)
\* the limbs of a * b from the k-th on
MulFrom(a, b, k, carry) ==
    IF k > Len(a) + Len(b) THEN << >>
    ELSE LET column == carry + ColumnSum(a, b, k, 1)
         IN  << column % LimbBase >>
                 \o MulFrom(a, b, k + 1, column \div LimbBase)

RECURSIVE DivLoop(_, _, _, _)
\* n more bits of the quotient of r by d, for r < 2 * d: the bits so far are
\* q, which has its limbs; sticky tells that the division left a remainder
DivLoop(r, d, q, n) ==
    IF n = 0 \/ q = << >> THEN [q |-> q, sticky |-> ~BigIsZero(r)]
    ELSE IF BigGE(r, d)
    THEN DivLoop(ShiftLeft(SubFrom(r, d, 1, 0), 1, Len(r)), d,
                 IncFrom(ShiftLeft(q, 1, Len(q)), 1), n - 1)
    ELSE DivLoop(ShiftLeft(r, 1, Len(r)), d, ShiftLeft(q, 1, Len(q)), n - 1)

FZero == [m |-> << 0, 0, 0, 0 >>, e |-> 0]

\* the float nearest to N * 2^e, or to a little more than that when sticky
RoundTo53(N, e, sticky) ==
    LET bits == BitLen(N)
        s == bits - 53
        q == ShiftRight(N, s, 4)
        up == /\ BitOf(N, s - 1) = 1
              /\ sticky \/ ~LowZero(N, s - 1) \/ q[1] % 2 = 1
        r == IF up THEN IncFrom(q, 1) ELSE q
    IN  IF bits = 0 THEN FZero
        ELSE IF bits <= 53
        THEN [m |-> ShiftLeft(N, 53 - bits, 4), e |-> e - (53 - bits)]
        ELSE IF BitLen(r) = 54
        THEN [m |-> ShiftRight(r, 1, 4), e |-> e + s + 1]
        ELSE [m |-> r, e |-> e + s]

\* float(n) of an integer 0 <= n < 2^31
FInt(n) == RoundTo53(BigOfInt(n), 0, FALSE)

\* 1.0: its mantissa is the one of every power of two
FOne == FInt(1)

\* x * y: exact when one of the two is a power of two, rounded otherwise
FMul(x, y) ==
    IF x = FZero \/ y = FZero THEN FZero
    ELSE IF y.m = FOne.m THEN [m |-> x.m, e |-> x.e + y.e - FOne.e]
    ELSE IF x.m = FOne.m THEN [m |-> y.m, e |-> x.e + y.e - FOne.e]
    ELSE RoundTo53(MulFrom(x.m, y.m, 1, 0), x.e + y.e, FALSE)

\* x / y, for y above zero: exact when y is a power of two, rounded
\* otherwise
FDiv(x, y) ==
    IF x = FZero THEN FZero
    ELSE IF y.m = FOne.m THEN [m |-> x.m, e |-> x.e - y.e + FOne.e]
    ELSE LET d == DivLoop(x.m, y.m, << 0, 0, 0, 0 >>, 56)
         IN  RoundTo53(d.q, x.e - y.e - 55, d.sticky)

\* the float of a decimal literal or of a fraction n / d: the nearest one
FloatOfRat(x) == FDiv(FInt(x[1]), FInt(x[2]))

\* the rational a float is equal to, for a float whose odd part and power
\* of two fit the integers of the model (no other float is handed to it)
RatOfFloat(f) ==
    IF f = FZero THEN Rat(0, 1)
    ELSE LET tz == CHOOSE k \in 0..52 : BitOf(f.m, k) = 1 /\ LowZero(f.m, k)
             odd == ShiftRight(f.m, tz, 4)
             n == odd[1] + odd[2] * LimbBase + odd[3] * LimbBase * LimbBase
             e == f.e + tz
         IN  IF BitLen(odd) + (IF e > 0 THEN e ELSE 0) > 30 \/ e < -30
             THEN CHOOSE r \in {} : TRUE
             ELSE IF e >= 0 THEN Rat(n * 2^e, 1) ELSE Rat(n, 2^(-e))

-----------------------------------------------------------------------------
(* QuantityOptimizer *)

\* self.volume_conversions: cups per unit
volume_conversions ==
    [u \in {"cup", "cups", "c"} |-> FInt(1)]
    @@ [u \in {"tablespoon", "tablespoons", "tbsp"} |-> FDiv(FInt(1), FInt(16))]
    @@ [u \in {"tsp", "teaspoon", "teaspoons"} |-> FDiv(FInt(1), FInt(48))]
    @@ [u \in {"pint", "pints", "pt"} |-> FInt(2)]
    @@ [u \in {"quart", "quarts", "qt"} |-> FInt(4)]
    @@ [u \in {"gallon", "gallons", "gal"} |-> FInt(16)]
    @@ [u \in {"fluid ounce", "fluid ounces", "fl oz"} |->
            FDiv(FInt(1), FInt(8))]
    @@ [u \in {"ml", "milliliter", "milliliters"} |->
            FDiv(FInt(1), FloatOfRat(<< 236588, 1000 >>))]
    @@ [u \in {"liter", "liters", "l"} |-> FloatOfRat(<< 4227, 1000 >>)]

\* self.weight_conversions: pounds per unit
weight_conversions ==
    [u \in {"pound", "pounds", "lb", "lbs"} |-> FInt(1)]
    @@ [u \in {"ounce", "ounces", "oz"} |-> FDiv(FInt(1), FInt(16))]
    @@ [u \in {"gram", "grams", "g"} |->
            FDiv(FInt(1), FloatOfRat(<< 453592, 1000 >>))]
    @@ [u \in {"kilogram", "kilograms", "kg"} |-> FloatOfRat(<< 2205, 1000 >>)]

\* self.count_units
count_units ==
    { "piece", "pieces", "item", "items", "whole", "each", "ea",
      "clove", "cloves", "head", "heads", "bunch", "bunches",
      "can", "cans", "jar", "jars", "bottle", "bottles",
      "package", "packages", "pkg", "bag", "bags", "slice", "slices" }

\* self.volume_units
volume_units == DOMAIN volume_conversions

\* self.weight_units
weight_units == DOMAIN weight_conversions

parse_quantity(quantity_str) ==
    IF quantity_str = "" THEN None
    ELSE LET s == Strip(quantity_str)
             parts == Split(s, " ")
         IN  IF Contains(s, "/")
             THEN IF Contains(s, " ")
                  THEN IF Len(parts) = 2 /\ FloatOf(parts[1]) # None
                                         /\ FractionOf(parts[2]) # None
                       THEN Some(RatAdd(FloatOf(parts[1])[1],
                                        FractionOf(parts[2])[1]))
                       ELSE None
                  ELSE FractionOf(s)
             ELSE FloatOf(s)

\* a conversion that hands back the quantity where the units have no
\* common table, instead of None
convert_quantity_any(quantity, from_unit, to_unit) ==
    IF from_unit \in volume_units /\ to_unit \in volume_units
    THEN Some(FDiv(FMul(quantity, volume_conversions[from_unit]),
                   volume_conversions[to_unit]))
    ELSE IF from_unit \in weight_units /\ to_unit \in weight_units
    THEN Some(FDiv(FMul(quantity, weight_conversions[from_unit]),
                   weight_conversions[to_unit]))
    ELSE Some(quantity)

\* _convert_quantity, on floats
convert_quantity(quantity, from_unit, to_unit) ==
    IF from_unit = to_unit THEN Some(quantity)
    ELSE IF from_unit \in volume_units /\ to_unit \in volume_units
    THEN Some(FDiv(FMul(quantity, volume_conversions[from_unit]),
                   volume_conversions[to_unit]))
    ELSE IF from_unit \in weight_units /\ to_unit \in weight_units
    THEN Some(FDiv(FMul(quantity, weight_conversions[from_unit]),
                   weight_conversions[to_unit]))
    ELSE IF from_unit \in count_units /\ to_unit \in count_units
    THEN Some(quantity)
    ELSE None

\* qualifiers_to_remove, in its order
qualifiers_to_remove ==
    << "extra virgin", "virgin", "pure", "organic", "fresh", "dried",
       "ground", "chopped", "diced", "sliced", "minced", "grated",
       "yellow", "white", "red", "green", "brown", "black",
       "all-purpose", "bread", "cake", "pastry", "self-rising",
       "unsalted", "salted", "sweet", "unsweetened",
       "low-fat", "fat-free", "reduced-fat", "whole", "skim",
       "large", "medium", "small", "jumbo", "baby" >>

RECURSIVE RemoveQualifiers(_, _)
\* the loop over qualifiers_to_remove from the k-th on (nothing is left to
\* remove from a name that is empty already)
RemoveQualifiers(name_lower, k) ==
    IF name_lower = "" \/ k > Len(qualifiers_to_remove) THEN name_lower
    ELSE RemoveQualifiers(Strip(Replace(name_lower, qualifiers_to_remove[k])),
                          k + 1)

normalize_ingredient_name(name) ==
    Strip(CollapseSpaces(RemoveQualifiers(Strip(Lower(name)), 1)))

\* the dict `groups` is a sequence of [key, members] in insertion order
KeyIndex(groups, key) ==
    IF \E i \in 1..Len(groups) : groups[i].key = key
    THEN CHOOSE i \in 1..Len(groups) : groups[i].key = key
    ELSE 0

RECURSIVE GroupFrom(_, _, _)
GroupFrom(ingredients, k, groups) ==
    IF k > Len(ingredients) THEN groups
    ELSE LET normalized_name == normalize_ingredient_name(ingredients[k].name)
             i == KeyIndex(groups, normalized_name)
         IN  GroupFrom(ingredients, k + 1,
                 IF i = 0
                 THEN Append(groups, [key |-> normalized_name,
                                      members |-> << ingredients[k] >>])
                 ELSE [groups EXCEPT ![i].members = Append(@, ingredients[k])])

\* a grouping that opens a group for every ingredient
group_ingredients_by_name_each_alone(ingredients) ==
    [i \in 1..Len(ingredients) |->
        [key |-> normalize_ingredient_name(ingredients[i].name),
         members |-> << ingredients[i] >>]]

\* _group_ingredients_by_name: the groups in the order their keys were
\* inserted
group_ingredients_by_name(ingredients) == GroupFrom(ingredients, 1, << >>)

RECURSIVE ParseAll_counts_unparsable(_, _, _)
\* a first loop that, besides the note, counts a member whose quantity does
\* not parse as 1 of its unit
ParseAll_counts_unparsable(ingredient_list, k, acc) ==
    IF k > Len(ingredient_list) THEN acc
    ELSE LET ingredient == ingredient_list[k]
             quantity == parse_quantity(ingredient.quantity)
             unit == Strip(Lower(ingredient.unit))
         IN  ParseAll_counts_unparsable(ingredient_list, k + 1,
                 IF quantity # None
                 THEN [acc EXCEPT !.quantities =
                          Append(@, [quantity |-> quantity[1], unit |-> unit])]
                 ELSE [quantities |->
                          Append(acc.quantities,
                                 [quantity |-> Rat(1, 1), unit |-> unit]),
                       notes |->
                          Append(acc.notes, "Could not parse quantity: "
                                                \o ingredient.quantity)])

RECURSIVE ParseAll(_, _, _)
\* the first loop of _combine_quantities: (quantities, notes) after the
\* members from the k-th on
ParseAll(ingredient_list, k, acc) ==
    IF k > Len(ingredient_list) THEN acc
    ELSE LET ingredient == ingredient_list[k]
             quantity == parse_quantity(ingredient.quantity)
             unit == Strip(Lower(ingredient.unit))
         IN  ParseAll(ingredient_list, k + 1,
                 IF quantity # None
                 THEN [acc EXCEPT !.quantities =
                          Append(@, [quantity |-> quantity[1], unit |-> unit])]
                 ELSE [acc EXCEPT !.notes =
                          Append(@, "Could not parse quantity: "
                                        \o ingredient.quantity)])

RECURSIVE ConvertAll(_, _, _, _)
\* the second loop: (sum of converted_quantities, notes)
ConvertAll(quantities, target_unit, k, acc) ==
    IF k > Len(quantities) THEN acc
    ELSE LET quantity == quantities[k].quantity
             unit == quantities[k].unit
             converted == convert_quantity(FloatOfRat(quantity), unit,
                                           target_unit)
         IN  ConvertAll(quantities, target_unit, k + 1,
                 IF converted # None
                 THEN [acc EXCEPT !.total = RatAdd(@, RatOfFloat(converted[1]))]
                 ELSE [total |-> RatAdd(acc.total, quantity),
                       notes |-> Append(acc.notes,
                           "Could not convert " \o FloatStr(quantity) \o " "
                               \o unit \o " to " \o target_unit)])

\* lines 257-270: the sum is rounded, the bulk note is added when it applies
CombineTotal(target_unit, total_quantity, notes) ==
    [quantity |-> total_quantity, unit |-> target_unit,
     notes |->
        IF RatLess(Rat(5, 1), total_quantity)
           /\ target_unit \in {"cup", "cups", "pound", "pounds"}
        THEN Append(notes,
                 "Consider bulk purchase - total needed: "
                     \o FloatStr(total_quantity) \o " " \o target_unit)
        ELSE notes]

\* lines 260-264: two decimals from 1 up, three below
RoundTotal(total) ==
    IF ~RatLess(total, Rat(1, 1)) THEN Round(total, 2) ELSE Round(total, 3)

CombineSummed(target_unit, summed) ==
    CombineTotal(target_unit, RoundTotal(summed.total), summed.notes)

\* lines 239-255: the fallback when nothing parsed, else the conversion of
\* every parsed quantity to the unit of the first one
CombineParsed(ingredient_list, parsed) ==
    IF parsed.quantities = << >>
    THEN [quantity |-> Rat(1, 1), unit |-> ingredient_list[1].unit,
          notes |-> parsed.notes]
    ELSE CombineSummed(parsed.quantities[1].unit,
             ConvertAll(parsed.quantities, parsed.quantities[1].unit, 1,
                        [total |-> Rat(0, 1), notes |-> parsed.notes]))

combine_quantities(ingredient_list) ==
    CombineParsed(ingredient_list,
        ParseAll(ingredient_list, 1, [quantities |-> << >>, notes |-> << >>]))

RECURSIVE AllRecipes(_, _)
AllRecipes(ingredient_list, k) ==
    IF k > Len(ingredient_list) THEN << >>
    ELSE ingredient_list[k].recipes \o AllRecipes(ingredient_list, k + 1)

\* a record built with the category and the importance of the last member
Optimized_last_member_class(ingredient_name, ingredient_list, combined) ==
    [name |-> ingredient_name,
     quantity |-> FloatStr(combined.quantity),
     unit |-> combined.unit,
     original_text |-> FloatStr(combined.quantity) \o " " \o combined.unit
                           \o " " \o ingredient_name,
     recipes |-> AllRecipes(ingredient_list, 1),
     category |-> ingredient_list[Len(ingredient_list)].category,
     importance |-> ingredient_list[Len(ingredient_list)].importance,
     freshness_priority |-> ingredient_list[1].freshness_priority,
     optimization_notes |-> combined.notes]

\* lines 201-211: the record built from the combined quantity
Optimized(ingredient_name, ingredient_list, combined) ==
    [name |-> ingredient_name,
     quantity |-> FloatStr(combined.quantity),
     unit |-> combined.unit,
     original_text |-> FloatStr(combined.quantity) \o " " \o combined.unit
                           \o " " \o ingredient_name,
     recipes |-> AllRecipes(ingredient_list, 1),
     category |-> ingredient_list[1].category,
     importance |-> ingredient_list[1].importance,
     freshness_priority |-> ingredient_list[1].freshness_priority,
     optimization_notes |-> combined.notes]

optimize_ingredient_group(ingredient_name, ingredient_list) ==
    Optimized(ingredient_name, ingredient_list,
              combine_quantities(ingredient_list))

\* the loop of optimize_quantities over the groups
OptimizeGroups(groups) ==
    [i \in 1..Len(groups) |->
        IF Len(groups[i].members) = 1
        THEN groups[i].members[1]
        ELSE optimize_ingredient_group(groups[i].key, groups[i].members)]

-----------------------------------------------------------------------------
(* SmartShoppingCart: the stages of generate_shopping_list *)

\* a dict is a function on its keys; {} is the function on no key
EmptyDict == << >>

\* dict.get(key, default)
Get(dict, key, default) == IF key \in DOMAIN dict THEN dict[key] ELSE default

days == << "Monday", "Tuesday", "Wednesday", "Thursday", "Friday", "Saturday",
           "Sunday" >>

meals == << "breakfast", "lunch", "dinner" >>

\* the ingredient lines of one (day, meal_type) cell, each with the recipe
\* reference it will carry; a cell that is absent has none
CellLines(plan, day, meal_type) ==
    IF day \notin DOMAIN plan THEN << >>
    ELSE LET meals_data == Get(plan[day], "meals", EmptyDict)
         IN  IF meal_type \notin DOMAIN meals_data THEN << >>
             ELSE LET meal_data == meals_data[meal_type]
                      recipe_name == Get(meal_data, "name", "Unknown Recipe")
                      meal_ingredients == Get(meal_data, "ingredients", << >>)
                  IN  [i \in 1..Len(meal_ingredients) |->
                          [ingredient |-> meal_ingredients[i],
                           recipe |-> day \o " " \o meal_type \o ": "
                                          \o recipe_name]]

RECURSIVE Walk_stops_at_absent_day(_, _)
\* the loops left, instead of continued, at a day the plan does not have
Walk_stops_at_absent_day(plan, k) ==
    IF k > Len(days) * Len(meals)
       \/ days[((k - 1) \div Len(meals)) + 1] \notin DOMAIN plan
    THEN << >>
    ELSE CellLines(plan, days[((k - 1) \div Len(meals)) + 1],
                   meals[((k - 1) % Len(meals)) + 1])
             \o Walk_stops_at_absent_day(plan, k + 1)

RECURSIVE Walk(_, _)
\* the nested loops over days and meals, from the k-th cell on
Walk(plan, k) ==
    IF k > Len(days) * Len(meals) THEN << >>
    ELSE CellLines(plan, days[((k - 1) \div Len(meals)) + 1],
                   meals[((k - 1) % Len(meals)) + 1]) \o Walk(plan, k + 1)

\* results of the _parse_ingredient calls of the walk, in call order
ParseLog(plan) ==
    LET lines == Walk(plan, 1)
    IN  [i \in 1..Len(lines) |->
            [text |-> lines[i].ingredient,
             result |-> parse_ingredient(lines[i].ingredient)]]

RECURSIVE Collect_keeps_last_recipe(_, _, _)
\* a loop body that, on a key it has seen, puts the new recipe reference in
\* place of the list instead of appending it
Collect_keeps_last_recipe(lines, k, ingredient_map) ==
    IF k > Len(lines) THEN ingredient_map
    ELSE LET ingredient == lines[k].ingredient
             parsed == parse_ingredient(ingredient)
             ingredient_key == Strip(Lower(parsed[1].name))
             i == KeyIndex(ingredient_map, ingredient_key)
         IN  Collect_keeps_last_recipe(lines, k + 1,
                 IF parsed = None THEN ingredient_map
                 ELSE IF i # 0
                 THEN [ingredient_map EXCEPT ![i].value.recipes =
                          << lines[k].recipe >>]
                 ELSE Append(ingredient_map,
                          [key |-> ingredient_key,
                           value |-> [name |-> parsed[1].name,
                                      quantity |-> parsed[1].quantity,
                                      unit |-> parsed[1].unit,
                                      original_text |-> ingredient,
                                      recipes |-> << lines[k].recipe >>]]))

RECURSIVE Collect(_, _, _)
\* the body of the innermost loop, for the lines from the k-th on;
\* ingredient_map is a sequence of [key, value] in insertion order
Collect(lines, k, ingredient_map) ==
    IF k > Len(lines) THEN ingredient_map
    ELSE LET ingredient == lines[k].ingredient
             parsed == parse_ingredient(ingredient)
             ingredient_key == Strip(Lower(parsed[1].name))
             i == KeyIndex(ingredient_map, ingredient_key)
         IN  Collect(lines, k + 1,
                 IF parsed = None THEN ingredient_map
                 ELSE IF i # 0
                 THEN [ingredient_map EXCEPT ![i].value.recipes =
                          Append(@, lines[k].recipe)]
                 ELSE Append(ingredient_map,
                          [key |-> ingredient_key,
                           value |-> [name |-> parsed[1].name,
                                      quantity |-> parsed[1].quantity,
                                      unit |-> parsed[1].unit,
                                      original_text |-> ingredient,
                                      recipes |-> << lines[k].recipe >>]]))

extract_ingredients_from_plan(plan) ==
    LET ingredient_map == Collect(Walk(plan, 1), 1, << >>)
    IN  [i \in 1..Len(ingredient_map) |-> ingredient_map[i].value]

\* {**ingredient, ...}: the fields of `more` added to, or put in place of,
\* those of the record
With(ingredient, more) == more @@ ingredient

classify_ingredients(ingredients) ==
    [i \in 1..Len(ingredients) |->
        LET classification == classify_ingredient(ingredients[i].name)
        IN  With(ingredients[i],
                 [category |-> classification.category,
                  importance |-> classification.importance,
                  freshness_priority |-> classification.freshness_priority])]

\* priority_order.get(x['freshness_priority'], 3)
PriorityKey(x) ==
    CASE x.freshness_priority = "high" -> 0
      [] x.freshness_priority = "medium" -> 1
      [] x.freshness_priority = "low" -> 2
      [] OTHER -> 3

KeyIs(k, x) == PriorityKey(x) = k

\* a sort that is not stable: the records of each key come out in reverse
SortByPriority_unstable(list) ==
    LET WithKey(k) == SelectSeq(list, LAMBDA x : KeyIs(k, x))
        Reversed(seq) == [i \in 1..Len(seq) |-> seq[Len(seq) + 1 - i]]
    IN  Reversed(WithKey(0)) \o Reversed(WithKey(1)) \o Reversed(WithKey(2))
            \o Reversed(WithKey(3))

\* list.sort(key=...): stable, so the records of each key keep their order
SortByPriority(list) ==
    LET WithKey(k) == SelectSeq(list, LAMBDA x : KeyIs(k, x))
    IN  WithKey(0) \o WithKey(1) \o WithKey(2) \o WithKey(3)

\* an enrichment that leaves the freshness_priority of the record as it
\* came in
prioritize_by_freshness_keeps_tag(ingredients) ==
    SortByPriority(
        [i \in 1..Len(ingredients) |->
            LET freshness_info == analyze_freshness(ingredients[i].name)
            IN  With(ingredients[i],
                     [shelf_life_days |-> freshness_info.shelf_life_days,
                      freshness_priority |-> ingredients[i].freshness_priority,
                      storage_tips |-> freshness_info.storage_tips,
                      warning_message |-> freshness_info.warning_message])])

\* prioritize_by_freshness: each record enriched with what analyze_freshness
\* says of its name, then sorted
prioritize_by_freshness(ingredients) ==
    SortByPriority(
        [i \in 1..Len(ingredients) |->
            LET freshness_info == analyze_freshness(ingredients[i].name)
            IN  With(ingredients[i],
                     [shelf_life_days |-> freshness_info.shelf_life_days,
                      freshness_priority |-> freshness_info.freshness_priority,
                      storage_tips |-> freshness_info.storage_tips,
                      warning_message |-> freshness_info.warning_message])])

\* an item that carries the notes the optimizer recorded
ShoppingItem_with_notes(ingredient) ==
    [name |-> ingredient.name,
     quantity |-> ingredient.quantity,
     unit |-> ingredient.unit,
     category |-> ingredient.category,
     importance |-> ingredient.importance,
     recipes |-> ingredient.recipes,
     estimated_cost |-> None,
     notes |-> IF "optimization_notes" \in DOMAIN ingredient
               THEN Some(ingredient.optimization_notes)
               ELSE None]

\* ShoppingItem(...): estimated_cost and notes keep their default, None
ShoppingItem(ingredient) ==
    [name |-> ingredient.name,
     quantity |-> ingredient.quantity,
     unit |-> ingredient.unit,
     category |-> ingredient.category,
     importance |-> ingredient.importance,
     recipes |-> ingredient.recipes,
     estimated_cost |-> None,
     notes |-> None]

\* the chain with the freshness test ahead of the two category tests
TierOf_freshness_first(ingredient) ==
    IF ingredient.freshness_priority = "high" THEN "fresh_priority"
    ELSE IF ingredient.category = "essential" THEN "essential"
    ELSE IF ingredient.category = "pantry_staples" THEN "pantry_staples"
    ELSE "shelf_stable"

\* the if / elif chain of _create_shopping_list: the list the item is
\* appended to
TierOf(ingredient) ==
    IF ingredient.category = "essential" THEN "essential"
    ELSE IF ingredient.category = "pantry_staples" THEN "pantry_staples"
    ELSE IF ingredient.freshness_priority = "high" THEN "fresh_priority"
    ELSE "shelf_stable"

\* a chain of plain ifs, whose last branch is taken by every record
TiersOf_no_elif(ingredient) == { TierOf(ingredient), "shelf_stable" }

\* the lists a record's item is appended to
TiersOf(ingredient) == { TierOf(ingredient) }

\* the elements of a sequence
Range(seq) == { seq[i] : i \in DOMAIN seq }

\* _generate_recommendations: the list it returns is the empty one it
\* started with, whatever it is handed
generate_recommendations(ingredients, user_preferences_) == << >>

\* ShoppingList(...): the four lists (generated_at, the clock's reading, is
\* left out), total_estimated_cost at its default; the recommendations are
\* not read
create_shopping_list(ingredients, recommendations_) ==
    LET Items(tier) ==
            LET chosen == SelectSeq(ingredients,
                                    LAMBDA x : tier \in TiersOf(x))
            IN  [i \in 1..Len(chosen) |-> ShoppingItem(chosen[i])]
    IN  [essential |-> Items("essential"),
         pantry_staples |-> Items("pantry_staples"),
         fresh_priority |-> Items("fresh_priority"),
         shelf_stable |-> Items("shelf_stable"),
         total_estimated_cost |-> None]

-----------------------------------------------------------------------------
(* The weekly plans generate_shopping_list is called with *)

\* The ingredient lines a plan is made of.
IngredientLines ==
    { "1 cup flour", "0.5 cup flour", "1/2 cup Bread Flour",
      "2 fluid ounce vanilla", "salt\npepper", "   ", "2 eggs",
      "bread", "shredded cheese", "breadcrumbs",
      "2 cups milk", "1 tablespoon Whole Milk", "1/0 cup ricotta",
      "olive oil", "3 tbsp extra virgin olive oil", "fresh basil",
      "chicken breast", "2 tbsp dried ricotta", "2 cups flour", "pupurere",
      "1/0 cup sugar", "1 pound white flour" }

\* The meals a line can be placed in: two cells of the week, the later one
\* of the walk with the earlier meal type.
MealSlots ==
    { [day |-> "Monday", meal_type |-> "dinner", name |-> "Bread"],
      [day |-> "Tuesday", meal_type |-> "breakfast", name |-> "Pancakes"] }

\* The plan {day: {'meals': {meal_type: {'name', 'ingredients'}}}} that holds
\* the placed lines, each meal's in the order they were placed.
PlanOf(placed) ==
    LET used == { placed[i][1] : i \in 1..Len(placed) }
        SlotAt(d, m) == CHOOSE s \in used : s.day = d /\ s.meal_type = m
        LinesAt(slot) ==
            LET here == SelectSeq(placed, LAMBDA p : p[1] = slot)
            IN  [i \in 1..Len(here) |-> here[i][2]]
    IN  [d \in { s.day : s \in used } |->
            [meals |->
                [m \in { s.meal_type : s \in { t \in used : t.day = d } } |->
                    [name |-> SlotAt(d, m).name,
                     ingredients |-> LinesAt(SlotAt(d, m))]]]]

\* The ways of placing at most n lines, one after the other.
Placements(n) ==
    UNION { [1..k -> MealSlots \X IngredientLines] : k \in 0..n }

\* Cells that hold no ingredient line the walk can reach: a day without
\* 'meals', a meal without 'ingredients', and a key that is no day of the
\* week.
PlanExtras ==
    { [Wednesday |-> EmptyDict],
      [Wednesday |-> [meals |-> [lunch |-> [name |-> "Leftovers"]]]],
      [Funday |-> [meals |-> [dinner |-> [name |-> "Feast",
                                          ingredients |-> << "salt" >>]]]] }

WeeklyPlans ==
    { PlanOf(placed) : placed \in Placements(MaxLines) }
    \cup { extra @@ PlanOf(placed) :
             placed \in Placements(MaxGapLines), extra \in PlanExtras }

-----------------------------------------------------------------------------
(* The state machine: one call of generate_shopping_list, stage by stage *)

Init ==
    /\ categories = [essential |-> << >>, pantry_staples |-> << >>,
                     fresh_priority |-> << >>, shelf_stable |-> << >>]
    /\ returned = << >>
    /\ conversion = None
    /\ pc = "idle"
    /\ weekly_plan = EmptyDict
    /\ user_preferences = None
    /\ parse_log = << >>
    /\ all_ingredients = << >>
    /\ classified_ingredients = << >>
    /\ ingredient_groups = << >>
    /\ optimized_ingredients = << >>
    /\ freshness_prioritized = << >>
    /\ recommendations = << >>
    /\ shopping_list = None

\* what no step inside a call touches: the cart's own field, the lists
\* handed back earlier, and the conversion looked at on its own
outside == << categories, returned, conversion >>

\* a call with one of the given plans and one of the given preferences
Call(plans, preferences) ==
    /\ pc = "idle"
    /\ \E plan \in plans : weekly_plan' = plan
    /\ \E given \in preferences : user_preferences' = given
    /\ pc' = "extract"
    /\ UNCHANGED << parse_log, all_ingredients, classified_ingredients,
                    ingredient_groups, optimized_ingredients,
                    freshness_prioritized, recommendations, shopping_list >>
    /\ UNCHANGED outside

\* the call: generate_shopping_list(weekly_plan), user_preferences left at
\* its default
generate_shopping_list == Call(WeeklyPlans, { None })

\* Step 1: all_ingredients = self._extract_ingredients_from_plan(weekly_plan)
ExtractStep ==
    /\ pc = "extract"
    /\ parse_log' = ParseLog(weekly_plan)
    /\ all_ingredients' = extract_ingredients_from_plan(weekly_plan)
    /\ pc' = "classify"
    /\ UNCHANGED << weekly_plan, user_preferences, classified_ingredients,
                    ingredient_groups, optimized_ingredients,
                    freshness_prioritized, recommendations, shopping_list >>
    /\ UNCHANGED outside

\* a classification that updates the extracted records in place
ClassifyStep_in_place ==
    /\ pc = "classify"
    /\ classified_ingredients' = classify_ingredients(all_ingredients)
    /\ all_ingredients' = classified_ingredients'
    /\ pc' = "optimize"
    /\ UNCHANGED << weekly_plan, user_preferences, parse_log,
                    ingredient_groups, optimized_ingredients,
                    freshness_prioritized, recommendations, shopping_list >>
    /\ UNCHANGED outside

\* Step 2: classified_ingredients = self._classify_ingredients(all_ingredients)
ClassifyStep ==
    /\ pc = "classify"
    /\ classified_ingredients' = classify_ingredients(all_ingredients)
    /\ pc' = "optimize"
    /\ UNCHANGED << weekly_plan, user_preferences, parse_log,
                    all_ingredients, ingredient_groups,
                    optimized_ingredients, freshness_prioritized,
                    recommendations, shopping_list >>
    /\ UNCHANGED outside

\* Step 3: optimized_ingredients = self._optimize_quantities(...)
OptimizeStep ==
    /\ pc = "optimize"
    /\ ingredient_groups' = group_ingredients_by_name(classified_ingredients)
    /\ optimized_ingredients' = OptimizeGroups(ingredient_groups')
    /\ pc' = "prioritize"
    /\ UNCHANGED << weekly_plan, user_preferences, parse_log,
                    all_ingredients, classified_ingredients,
                    freshness_prioritized, recommendations, shopping_list >>
    /\ UNCHANGED outside

\* a freshness stage that is handed the classified records
PrioritizeStep_on_classified ==
    /\ pc = "prioritize"
    /\ freshness_prioritized' = prioritize_by_freshness(classified_ingredients)
    /\ pc' = "recommend"
    /\ UNCHANGED << weekly_plan, user_preferences, parse_log,
                    all_ingredients, classified_ingredients,
                    ingredient_groups, optimized_ingredients,
                    recommendations, shopping_list >>
    /\ UNCHANGED outside

\* Step 4: freshness_prioritized = self._apply_freshness_prioritization(...)
PrioritizeStep ==
    /\ pc = "prioritize"
    /\ freshness_prioritized' = prioritize_by_freshness(optimized_ingredients)
    /\ pc' = "recommend"
    /\ UNCHANGED << weekly_plan, user_preferences, parse_log,
                    all_ingredients, classified_ingredients,
                    ingredient_groups, optimized_ingredients,
                    recommendations, shopping_list >>
    /\ UNCHANGED outside

\* Step 5: recommendations = self._generate_recommendations(...), which
\* returns an empty list
RecommendStep ==
    /\ pc = "recommend"
    /\ recommendations' = generate_recommendations(freshness_prioritized,
                                                   user_preferences)
    /\ pc' = "create"
    /\ UNCHANGED << weekly_plan, user_preferences, parse_log,
                    all_ingredients, classified_ingredients,
                    ingredient_groups, optimized_ingredients,
                    freshness_prioritized, shopping_list >>
    /\ UNCHANGED outside

\* a list built from the ingredients that user_preferences does not exclude
CreateStep_applies_preferences ==
    /\ pc = "create"
    /\ shopping_list' =
          Some(create_shopping_list(
                   SelectSeq(freshness_prioritized,
                       LAMBDA x : \/ user_preferences = None
                                  \/ x.name \notin Range(user_preferences.exclude)),
                   recommendations))
    /\ pc' = "done"
    /\ UNCHANGED << weekly_plan, user_preferences, parse_log,
                    all_ingredients, classified_ingredients,
                    ingredient_groups, optimized_ingredients,
                    freshness_prioritized, recommendations >>
    /\ UNCHANGED outside

\* Step 6: shopping_list = self._create_shopping_list(...), returned
CreateStep ==
    /\ pc = "create"
    /\ shopping_list' = Some(create_shopping_list(freshness_prioritized,
                                                   recommendations))
    /\ pc' = "done"
    /\ UNCHANGED << weekly_plan, user_preferences, parse_log,
                    all_ingredients, classified_ingredients,
                    ingredient_groups, optimized_ingredients,
                    freshness_prioritized, recommendations >>
    /\ UNCHANGED outside

Next ==
    \/ generate_shopping_list
    \/ ExtractStep
    \/ ClassifyStep
    \/ OptimizeStep
    \/ PrioritizeStep
    \/ RecommendStep
    \/ CreateStep

Spec == Init /\ [][Next]_vars

-----------------------------------------------------------------------------
(* Several calls on one cart *)

\* The slot of MealSlots on a day.
SlotOn(day) == CHOOSE slot \in MealSlots : slot.day = day

\* The plans of the calls: no meal, one meal, two meals whose lines are
\* merged, and a meal of another ingredient.
CallPlans ==
    { PlanOf(<< >>),
      PlanOf(<< << SlotOn("Monday"), "1 cup flour" >> >>),
      PlanOf(<< << SlotOn("Monday"), "1 cup flour" >>,
                << SlotOn("Tuesday"), "1/2 cup Bread Flour" >> >>),
      PlanOf(<< << SlotOn("Monday"), "2 cups milk" >> >>) }

\* The user_preferences of the calls: the default and two dicts.
Preferences ==
    { None, [exclude |-> << "flour" >>], [exclude |-> << "milk" >>] }

\* generate_shopping_list(weekly_plan, user_preferences) on a cart that has
\* been called fewer than MaxCalls times
CallStep ==
    /\ Len(returned) < MaxCalls
    /\ Call(CallPlans, Preferences)

\* what the caller holds of one call: the arguments and the four tiers of
\* the ShoppingList it was handed
Held ==
    [weekly_plan |-> weekly_plan, user_preferences |-> user_preferences,
     shopping_list |-> shopping_list[1]]

\* every list handed out is one and the same object, written by each call
ReturnStep_one_shared_list ==
    /\ pc = "done"
    /\ returned' = [i \in 1..(Len(returned) + 1) |->
                       IF i <= Len(returned)
                       THEN [returned[i] EXCEPT
                                !.shopping_list = shopping_list[1]]
                       ELSE Held]
    /\ pc' = "idle"
    /\ weekly_plan' = EmptyDict
    /\ user_preferences' = None
    /\ parse_log' = << >>
    /\ all_ingredients' = << >>
    /\ classified_ingredients' = << >>
    /\ ingredient_groups' = << >>
    /\ optimized_ingredients' = << >>
    /\ freshness_prioritized' = << >>
    /\ recommendations' = << >>
    /\ shopping_list' = None
    /\ UNCHANGED << categories, conversion >>

\* return shopping_list: the caller holds the list, the locals of the call
\* are gone
ReturnStep ==
    /\ pc = "done"
    /\ returned' = Append(returned, Held)
    /\ pc' = "idle"
    /\ weekly_plan' = EmptyDict
    /\ user_preferences' = None
    /\ parse_log' = << >>
    /\ all_ingredients' = << >>
    /\ classified_ingredients' = << >>
    /\ ingredient_groups' = << >>
    /\ optimized_ingredients' = << >>
    /\ freshness_prioritized' = << >>
    /\ recommendations' = << >>
    /\ shopping_list' = None
    /\ UNCHANGED << categories, conversion >>

NextCalls ==
    \/ CallStep
    \/ ExtractStep
    \/ ClassifyStep
    \/ OptimizeStep
    \/ PrioritizeStep
    \/ RecommendStep
    \/ CreateStep
    \/ ReturnStep

SpecCalls == Init /\ [][NextCalls]_vars

-----------------------------------------------------------------------------
(* Calls of _convert_quantity *)

\* The units of the calls: spellings of the cup and of the tablespoon, other
\* volume units, weight units, count units, no unit and a unit of no table.
ConvertUnits ==
    { "cup", "cups", "tablespoon", "tablespoons", "tbsp", "tsp", "ml",
      "liter", "pound", "oz", "gram", "kg", "clove", "can", "", "pinch" }

\* The quantities of the calls: 1.0, 2.0, 0.5, 1/3 and 0.0.
ConvertQuantities ==
    { FInt(1), FInt(2), FloatOfRat(<< 1, 2 >>), FloatOfRat(<< 1, 3 >>),
      FInt(0) }

\* one call of _convert_quantity with what it returned
Converted(quantity, from_unit, to_unit) ==
    [quantity |-> quantity, from_unit |-> from_unit, to_unit |-> to_unit,
     result |-> convert_quantity(quantity, from_unit, to_unit)]

\* self._convert_quantity(quantity, from_unit, to_unit), the first call
ConvertStep ==
    /\ pc = "idle"
    /\ conversion = None
    /\ \E quantity \in ConvertQuantities :
       \E from_unit \in ConvertUnits :
       \E to_unit \in ConvertUnits :
          conversion' = << Converted(quantity, from_unit, to_unit) >>
    /\ UNCHANGED << categories, returned, pc, weekly_plan, user_preferences,
                    parse_log, all_ingredients, classified_ingredients,
                    ingredient_groups, optimized_ingredients,
                    freshness_prioritized, recommendations, shopping_list >>

\* self._convert_quantity(result, to_unit, from_unit): what the last call
\* returned, converted back
ConvertBackStep ==
    /\ pc = "idle"
    /\ Len(conversion) = 1
    /\ conversion[1].result # None
    /\ conversion' = Append(conversion,
                          Converted(conversion[1].result[1],
                                    conversion[1].to_unit,
                                    conversion[1].from_unit))
    /\ UNCHANGED << categories, returned, pc, weekly_plan, user_preferences,
                    parse_log, all_ingredients, classified_ingredients,
                    ingredient_groups, optimized_ingredients,
                    freshness_prioritized, recommendations, shopping_list >>

NextConvert ==
    \/ ConvertStep
    \/ ConvertBackStep

SpecConvert == Init /\ [][NextConvert]_vars

-----------------------------------------------------------------------------
(* What the properties below read from a state *)

\* the lines of the plan in the order of the walk, each with its recipe
PlanLines == Walk(weekly_plan, 1)

\* the items of the returned list, tier after tier
AllItems ==
    IF shopping_list = None THEN << >>
    ELSE shopping_list[1].essential \o shopping_list[1].pantry_staples
             \o shopping_list[1].fresh_priority \o shopping_list[1].shelf_stable

\* what identifies a record among the records of one call
Proj(x) == << x.name, x.quantity, x.unit, x.recipes >>

\* the words of a name: what white space separates
NameWords(s) == Range(Split(Strip(CollapseSpaces(s)), " ")) \ { "" }

\* the units of the conversion tables that are more than one word
MultiWordUnits ==
    { u \in (volume_units \cup weight_units \cup count_units) :
        Contains(u, " ") }

-----------------------------------------------------------------------------
(* Properties *)

\* C1: when two meals list the same ingredient name with the same unit (each
\* line a quantity, that unit and the name), and no other line of the plan
\* is that ingredient, the returned list holds exactly one item for it,
\* whose quantity is the sum of the two quantities, whose unit is that unit
\* and whose recipes name both meals.
C1_SameNameQuantitiesSummed ==
    pc = "done" =>
        \A i, j \in DOMAIN PlanLines :
            LET a == parse_ingredient(PlanLines[i].ingredient)
                b == parse_ingredient(PlanLines[j].ingredient)
                qa == parse_quantity(a[1].quantity)
                qb == parse_quantity(b[1].quantity)
                key == normalize_ingredient_name(a[1].name)
                matching == { k \in DOMAIN AllItems :
                                normalize_ingredient_name(AllItems[k].name) = key }
            IN  ( /\ i < j
                  /\ a # None /\ b # None
                  /\ Strip(Lower(a[1].name)) = Strip(Lower(b[1].name))
                  /\ a[1].unit = b[1].unit /\ a[1].unit # ""
                  /\ PlanLines[i].recipe # PlanLines[j].recipe
                  /\ qa # None /\ qb # None
                  /\ \A k \in DOMAIN PlanLines \ { i, j } :
                        LET c == parse_ingredient(PlanLines[k].ingredient)
                        IN  c = None
                            \/ normalize_ingredient_name(c[1].name) # key )
                => /\ Cardinality(matching) = 1
                   /\ \A k \in matching :
                        /\ parse_quantity(AllItems[k].quantity)
                               = Some(RatAdd(qa[1], qb[1]))
                        /\ AllItems[k].unit = a[1].unit
                        /\ { PlanLines[i].recipe, PlanLines[j].recipe }
                               \subseteq Range(AllItems[k].recipes)

\* C2: every consolidated record the optimizer returned is exactly one item
\* of exactly one tier: none is dropped, none appears twice, and the four
\* tier lengths sum to the number of consolidated records.
C2_BucketingTotalExclusive ==
    pc = "done" =>
        /\ Len(AllItems) = Len(optimized_ingredients)
        /\ \A r \in DOMAIN optimized_ingredients :
              Cardinality({ k \in DOMAIN AllItems :
                              Proj(AllItems[k]) = Proj(optimized_ingredients[r]) })
                = Cardinality({ q \in DOMAIN optimized_ingredients :
                                  Proj(optimized_ingredients[q])
                                      = Proj(optimized_ingredients[r]) })

\* a call that returned two records, one in the essential tier and one in
\* the shelf_stable tier
C2_Witness ==
    /\ pc = "done"
    /\ Len(optimized_ingredients) = 2
    /\ Len(shopping_list[1].essential) = 1
    /\ Len(shopping_list[1].shelf_stable) = 1

\* C3: a consolidated record is in the essential tier iff its category is
\* essential, in the pantry_staples tier iff its category is pantry_staples,
\* in the fresh_priority tier iff its category is neither and its freshness
\* priority is high, and in the shelf_stable tier otherwise.
C3_TierRules ==
    pc = "done" =>
        \A r \in DOMAIN freshness_prioritized :
            LET x == freshness_prioritized[r]
                In(tier) == \E k \in DOMAIN shopping_list[1][tier] :
                                Proj(shopping_list[1][tier][k]) = Proj(x)
                by_category == x.category \in { "essential", "pantry_staples" }
            IN  /\ In("essential") <=> x.category = "essential"
                /\ In("pantry_staples") <=> x.category = "pantry_staples"
                /\ In("fresh_priority")
                       <=> (~by_category /\ x.freshness_priority = "high")
                /\ In("shelf_stable")
                       <=> (~by_category /\ x.freshness_priority # "high")

\* a record of high freshness priority and category pantry_staples, placed
\* in the pantry_staples tier, next to one placed in the fresh_priority tier
C3_Witness ==
    /\ pc = "done"
    /\ \E r \in DOMAIN freshness_prioritized :
          /\ freshness_prioritized[r].freshness_priority = "high"
          /\ freshness_prioritized[r].category = "pantry_staples"
          /\ \E k \in DOMAIN shopping_list[1].pantry_staples :
                shopping_list[1].pantry_staples[k].name
                    = freshness_prioritized[r].name
    /\ Len(shopping_list[1].fresh_priority) = 1

\* C4: the normalized name of a name that is not blank is not empty, so no
\* group has an empty merge key and no consolidated record an empty name.
C4_NormalizedNameNonEmpty ==
    /\ \A g \in DOMAIN ingredient_groups :
          \A m \in DOMAIN ingredient_groups[g].members :
              Strip(ingredient_groups[g].members[m].name) # ""
                  => ingredient_groups[g].key # ""
    /\ \A r \in DOMAIN optimized_ingredients :
          optimized_ingredients[r].name # ""

\* C5: normalizing a normalized name returns it unchanged.
C5_NormalizationIdempotent ==
    \A g \in DOMAIN ingredient_groups :
        normalize_ingredient_name(ingredient_groups[g].key)
            = ingredient_groups[g].key

\* C6: a qualifier is removed only where it is a whole word of the name: a
\* word of the name that is no qualifier, and no word of a qualifier, is a
\* word of the merge key.
C6_QualifiersWholeWordOnly ==
    \A g \in DOMAIN ingredient_groups :
        \A m \in DOMAIN ingredient_groups[g].members :
            LET name_lower == Strip(Lower(ingredient_groups[g].members[m].name))
                qualifier_words ==
                    UNION { NameWords(q) : q \in Range(qualifiers_to_remove) }
            IN  NameWords(name_lower) \ qualifier_words
                    \subseteq NameWords(ingredient_groups[g].key)

\* C7: _parse_ingredient returns None only for a text that is empty or all
\* white space.
C7_NoneOnlyForBlank ==
    \A e \in DOMAIN parse_log :
        parse_log[e].result = None => Strip(parse_log[e].text) = ""

C9_MultiWordUnitKeptWhole ==
    \A e \in DOMAIN parse_log :
        \A u \in MultiWordUnits :
            LET text == Strip(parse_log[e].text)
                a == SpanEnd(text, 1, DigitChars)
                b == a + Len(u) + 1
            IN  ( /\ a > 1
                  /\ b < Len(text)
                  /\ SubSeq(text, a, b) = " " \o u \o " " )
                => /\ parse_log[e].result # None
                   /\ parse_log[e].result[1].unit = u
                   /\ parse_log[e].result[1].name
                          = Strip(SubSeq(text, b + 1, Len(text)))

\* C10: the category is that of the first table that matches the name, in
\* the order essential, pantry_staples, fresh_priority, shelf_stable, and
\* essential when none matches: "olive oil" is pantry_staples and
\* "chicken breast" is essential.  Read over the classified records when the
\* classification has returned.
C10_CategoryOrder ==
    pc = "optimize" =>
    \A r \in DOMAIN classified_ingredients :
        LET name_lower == Strip(Lower(classified_ingredients[r].name))
            category == classified_ingredients[r].category
            essential == Search(essential_patterns, name_lower)
            pantry == Search(pantry_staples_patterns, name_lower)
            fresh == Search(fresh_patterns, name_lower)
            stable == Search(shelf_stable_patterns, name_lower)
        IN  /\ essential => category = "essential"
            /\ (~essential /\ pantry) => category = "pantry_staples"
            /\ category = "fresh_priority"
                   => (fresh /\ ~essential /\ ~pantry)
            /\ category = "shelf_stable"
                   => (stable /\ ~essential /\ ~pantry /\ ~fresh)
            /\ (~essential /\ ~pantry /\ ~fresh /\ ~stable)
                   => category = "essential"
            /\ name_lower = "olive oil" => category = "pantry_staples"
            /\ name_lower = "chicken breast" => category = "essential"

\* "olive oil", found by the pantry table and by the shelf-stable table,
\* classified pantry_staples, next to "chicken breast" classified essential
C10_Witness ==
    /\ \E r \in DOMAIN classified_ingredients :
          /\ classified_ingredients[r].name = "olive oil"
          /\ Search(shelf_stable_patterns, "olive oil")
          /\ classified_ingredients[r].category = "pantry_staples"
    /\ \E r \in DOMAIN classified_ingredients :
          /\ classified_ingredients[r].name = "chicken breast"
          /\ classified_ingredients[r].category = "essential"

\* the orderings of n members
Perms(n) ==
    { f \in [1..n -> 1..n] : \A i, j \in 1..n : i # j => f[i] # f[j] }

Reorder(seq, f) == [i \in 1..Len(seq) |-> seq[f[i]]]

UnitCategory(u) ==
    IF u \in volume_units THEN "volume"
    ELSE IF u \in weight_units THEN "weight"
    ELSE IF u \in count_units THEN "count"
    ELSE "unknown"

\* the unit u has no conversion to the target unit t
Mismatch(u, t) ==
    u # t /\ (UnitCategory(u) # UnitCategory(t) \/ UnitCategory(u) = "unknown")

RECURSIVE SumOfRaw(_, _)
\* the sum of the parsed quantities of the members from the k-th on
SumOfRaw(members, k) ==
    IF k > Len(members) THEN Rat(0, 1)
    ELSE RatAdd(parse_quantity(members[k].quantity)[1],
                SumOfRaw(members, k + 1))

\* C12: when a member of a merge group has a unit of another category than
\* the target unit (or an unknown unit), its raw quantity is added unchanged
\* to the total and one "could not convert" note is recorded for it.  Read
\* over the groups whose members have the target unit or such a unit.
C12_MismatchAddsRawWithNote ==
    pc = "prioritize" =>
        \A g \in DOMAIN ingredient_groups :
            LET members == ingredient_groups[g].members
                UnitAt(m) == Strip(Lower(members[m].unit))
                target_unit == UnitAt(1)
                mismatched == { m \in DOMAIN members :
                                  Mismatch(UnitAt(m), target_unit) }
                combined == combine_quantities(members)
                NoteOf(m) == "Could not convert "
                                 \o FloatStr(parse_quantity(members[m].quantity)[1])
                                 \o " " \o UnitAt(m) \o " to " \o target_unit
            IN  ( /\ Len(members) >= 2
                  /\ mismatched # {}
                  /\ \A m \in DOMAIN members :
                        /\ parse_quantity(members[m].quantity) # None
                        /\ UnitAt(m) = target_unit \/ m \in mismatched )
                => /\ combined.quantity = RoundTotal(SumOfRaw(members, 1))
                   /\ combined.unit = target_unit
                   /\ \A m \in mismatched : NoteOf(m) \in Range(combined.notes)
                   /\ Cardinality({ n \in DOMAIN combined.notes :
                                      SubSeq(combined.notes[n], 1, 17)
                                          = "Could not convert" })
                        = Cardinality(mismatched)
                   /\ optimized_ingredients[g].quantity
                          = FloatStr(combined.quantity)
                   /\ optimized_ingredients[g].optimization_notes
                          = combined.notes

\* "1 cup flour" merged with "1 pound white flour": 2.0 cup, with the note
\* for the pound
C12_Witness ==
    /\ pc = "prioritize"
    /\ \E g \in DOMAIN ingredient_groups :
          LET members == ingredient_groups[g].members
          IN  /\ Len(members) = 2
              /\ members[1].unit = "cup" /\ members[2].unit = "pound"
              /\ optimized_ingredients[g].quantity = "2.0"
              /\ optimized_ingredients[g].unit = "cup"
              /\ optimized_ingredients[g].optimization_notes
                     = << "Could not convert 1.0 pound to cup" >>

\* C13: a record whose quantity text cannot be parsed to a number ends in
\* the shopping list with quantity 1 and unit "", so every item of the
\* returned list has a quantity that denotes a number.
C13_UnparsableQuantityDefaultsToOne ==
    pc = "done" =>
        /\ \A k \in DOMAIN AllItems :
              parse_quantity(AllItems[k].quantity) # None
        /\ \A e \in DOMAIN parse_log :
              ( /\ parse_log[e].result # None
                /\ parse_quantity(parse_log[e].result[1].quantity) = None
                /\ Len(parse_log) = 1 )
              => \E k \in DOMAIN AllItems :
                    /\ parse_quantity(AllItems[k].quantity) = Some(Rat(1, 1))
                    /\ AllItems[k].unit = ""

\* the cell (day, meal_type) of the plan is there, down to its ingredients
PresentCell(plan, day, meal_type) ==
    /\ day \in DOMAIN plan
    /\ "meals" \in DOMAIN plan[day]
    /\ meal_type \in DOMAIN plan[day].meals
    /\ "ingredients" \in DOMAIN plan[day].meals[meal_type]

RECURSIVE PresentLines(_, _)
\* the ingredient lines of the present cells, day by day and meal by meal,
\* from the k-th cell of the week on
PresentLines(plan, k) ==
    IF k > 21 THEN << >>
    ELSE LET day == days[((k - 1) \div 3) + 1]
             meal_type == meals[((k - 1) % 3) + 1]
         IN  (IF PresentCell(plan, day, meal_type)
              THEN plan[day].meals[meal_type].ingredients ELSE << >>)
                 \o PresentLines(plan, k + 1)

\* the plan restricted to its present cells
PresentPart(plan) ==
    LET present == { c \in Range(days) \X Range(meals) :
                       PresentCell(plan, c[1], c[2]) }
    IN  [d \in { c[1] : c \in present } |->
            [meals |-> [m \in { c[2] : c \in { b \in present : b[1] = d } } |->
                           plan[d].meals[m]]]]

\* C14: a missing plan cell (a day absent from the plan, a day without
\* 'meals', a meal type absent from a day, a meal without 'ingredients')
\* contributes nothing: the lines the extraction parses are those of the
\* present cells, in the order of the week, and the list returned for the
\* plan has the tiers of the list for the plan restricted to its present
\* cells.
C14_MissingCellsContributeNothing ==
    /\ pc = "classify" =>
          [e \in DOMAIN parse_log |-> parse_log[e].text]
              = PresentLines(weekly_plan, 1)
    /\ (pc = "done" /\ PresentPart(weekly_plan) # weekly_plan) =>
          shopping_list =
              Some(create_shopping_list(prioritize_by_freshness(OptimizeGroups(
                  group_ingredients_by_name(classify_ingredients(
                      extract_ingredients_from_plan(
                          PresentPart(weekly_plan)))))),
                  recommendations))

\* a returned list of one item for a plan that has a day without 'meals' or
\* a meal without 'ingredients' next to the meal of the item
C14_Witness ==
    /\ pc = "done"
    /\ "Wednesday" \in DOMAIN weekly_plan
    /\ ~PresentCell(weekly_plan, "Wednesday", "lunch")
    /\ "Monday" \in DOMAIN weekly_plan
    /\ Len(AllItems) = 1

\* C15: generate_shopping_list fails, instead of returning a shopping list,
\* on a plan that has no day key of Monday..Sunday: a list is returned only
\* for a plan with such a key.
C15_NoDayKeyFails ==
    pc = "done" => DOMAIN weekly_plan \cap Range(days) # {}

\* C16: after the FreshnessAnalyzer stage every record still carries the
\* freshness priority the Classifier gave it: the enrichment has not
\* overwritten the tag the record came in with.
C16_ClassifierTagKept ==
    pc = "recommend" =>
        \A r \in DOMAIN freshness_prioritized :
            \A q \in DOMAIN optimized_ingredients :
                Proj(freshness_prioritized[r]) = Proj(optimized_ingredients[q])
                    => freshness_prioritized[r].freshness_priority
                           = optimized_ingredients[q].freshness_priority

\* C17: analyze_freshness gives the priority of the first of the high,
\* medium and low tiers that matches, and the shelf life is fixed by the
\* priority: 3 days whenever it is high, 10 whenever it is medium, 60
\* whenever it is low.
C17_ShelfLifeFixedByPriority ==
    pc = "recommend" =>
        \A r \in DOMAIN freshness_prioritized :
            LET x == freshness_prioritized[r]
                name_lower == Strip(Lower(x.name))
            IN  /\ Search(analyzer_high_ingredients, name_lower)
                       => x.freshness_priority = "high"
                /\ ( /\ ~Search(analyzer_high_ingredients, name_lower)
                     /\ Search(analyzer_medium_ingredients, name_lower) )
                       => x.freshness_priority = "medium"
                /\ x.freshness_priority = "high" => x.shelf_life_days = 3
                /\ x.freshness_priority = "medium" => x.shelf_life_days = 10
                /\ x.freshness_priority = "low" => x.shelf_life_days = 60

\* the place of a priority in the order high, medium, low
Rank(priority) ==
    CASE priority = "high" -> 0
      [] priority = "medium" -> 1
      [] priority = "low" -> 2
      [] OTHER -> 3

\* C18: the output of prioritize_by_freshness is a permutation of its input
\* records, one output per input, in which every high record precedes every
\* medium one and every medium one every low one, and records of equal
\* priority keep their relative input order.
C18_StableSortByPriority ==
    pc = "recommend" =>
        /\ Len(freshness_prioritized) = Len(optimized_ingredients)
        /\ \E f \in Perms(Len(optimized_ingredients)) :
              /\ \A i \in DOMAIN freshness_prioritized :
                    Proj(freshness_prioritized[i])
                        = Proj(optimized_ingredients[f[i]])
              /\ \A i, j \in DOMAIN freshness_prioritized :
                    i < j =>
                      LET ri == Rank(freshness_prioritized[i].freshness_priority)
                          rj == Rank(freshness_prioritized[j].freshness_priority)
                      IN  /\ ri <= rj
                          /\ ri = rj => f[i] < f[j]

\* two records that came in as low then high and went out as high then low
C18_Witness ==
    /\ pc = "recommend"
    /\ Len(optimized_ingredients) = 2
    /\ freshness_prioritized[1].name = optimized_ingredients[2].name
    /\ freshness_prioritized[1].freshness_priority = "high"
    /\ freshness_prioritized[2].name = optimized_ingredients[1].name
    /\ freshness_prioritized[2].freshness_priority = "low"

\* the positions of one call, in the order they are passed
Stages ==
    << "idle", "extract", "classify", "optimize", "prioritize", "recommend",
       "create", "done" >>

StageNo(p) == CHOOSE k \in DOMAIN Stages : Stages[k] = p

\* the stage that leaves position p has not run yet
Before(p) == StageNo(pc) <= StageNo(p)

\* what each stage has been handed, read from what it produced
StageInputs ==
    /\ Before("extract") => all_ingredients = << >>
    /\ Before("classify") => classified_ingredients = << >>
    /\ Before("optimize") => optimized_ingredients = << >>
    /\ Before("prioritize") => freshness_prioritized = << >>
    /\ Before("create") => shopping_list = None
    /\ ~Before("classify") =>
          /\ Len(classified_ingredients) = Len(all_ingredients)
          /\ \A i \in DOMAIN all_ingredients :
                /\ classified_ingredients[i].name = all_ingredients[i].name
                /\ classified_ingredients[i].original_text
                       = all_ingredients[i].original_text
    /\ ~Before("prioritize") =>
          /\ Len(freshness_prioritized) = Len(optimized_ingredients)
          /\ \A r \in DOMAIN freshness_prioritized :
                \E q \in DOMAIN optimized_ingredients :
                    Proj(freshness_prioritized[r]) = Proj(optimized_ingredients[q])
    /\ ~Before("create") =>
          /\ Len(AllItems) = Len(optimized_ingredients)
          /\ \A k \in DOMAIN AllItems :
                \E q \in DOMAIN optimized_ingredients :
                    Proj(AllItems[k]) = Proj(optimized_ingredients[q])

\* C19: within one call the stages run strictly in the order extraction,
\* classification, optimization, freshness analysis, bucketing, each after
\* the previous one has returned; every extracted record is classified
\* exactly once, and the freshness and bucketing stages see only the
\* optimizer's consolidated records.
C19_StagesInOrder ==
    /\ [][StageNo(pc') = StageNo(pc) + 1]_vars
    /\ []StageInputs

\* a finished call in which two extracted records were merged into the one
\* record that reached the list
C19_Witness ==
    /\ pc = "done"
    /\ Len(classified_ingredients) = 2
    /\ Len(optimized_ingredients) = 1
    /\ Len(AllItems) = 1

\* C20: generate_shopping_list leaves the weekly plan unchanged, and no
\* stage after extraction modifies what an earlier stage produced: the
\* extracted, classified and consolidated collections stay as their stage
\* produced them.
C20_EarlierOutputsUnchanged ==
    [][ /\ ~Before("idle") => weekly_plan' = weekly_plan
        /\ ~Before("extract") =>
              all_ingredients' = all_ingredients /\ parse_log' = parse_log
        /\ ~Before("classify") =>
              classified_ingredients' = classified_ingredients
        /\ ~Before("optimize") =>
              /\ ingredient_groups' = ingredient_groups
              /\ optimized_ingredients' = optimized_ingredients
        /\ ~Before("prioritize") =>
              freshness_prioritized' = freshness_prioritized ]_vars

\* a finished call whose classification added fields to new records and
\* whose merge built a new record, the extracted records being as extracted
C20_Witness ==
    /\ pc = "done"
    /\ Len(all_ingredients) = 2
    /\ classified_ingredients # all_ingredients
    /\ Len(optimized_ingredients) = 1
    /\ \A i \in DOMAIN all_ingredients :
          DOMAIN all_ingredients[i]
              = { "name", "quantity", "unit", "original_text", "recipes" }

\* the four tiers of a list
TiersOfList(list) ==
    << list.essential, list.pantry_staples, list.fresh_priority,
       list.shelf_stable >>

\* C21: over any sequence of calls on one cart, the four tiers returned for
\* a plan depend only on that plan: two calls with equal plans were handed
\* equal tiers, whatever calls came between; and no step of a later call
\* changes a list that an earlier call returned.
C21_CallsIndependent ==
    /\ [](\A i, j \in DOMAIN returned :
            returned[i].weekly_plan = returned[j].weekly_plan
                => TiersOfList(returned[i].shopping_list)
                       = TiersOfList(returned[j].shopping_list))
    /\ [][\A i \in DOMAIN returned :
            i \in DOMAIN returned' /\ returned'[i] = returned[i]]_vars

\* three calls returned: the first and the third with one plan and a list
\* of one item, the second with another plan and another list
C21_Witness ==
    /\ Len(returned) = 3
    /\ returned[1].weekly_plan = returned[3].weekly_plan
    /\ returned[2].weekly_plan # returned[1].weekly_plan
    /\ Len(returned[1].shopping_list.essential) = 1
    /\ TiersOfList(returned[2].shopping_list)
           # TiersOfList(returned[1].shopping_list)

\* the members of a group whose quantity parses, in group order
Parsable(members) ==
    SelectSeq(members, LAMBDA m : parse_quantity(m.quantity) # None)

\* the members of a group whose quantity does not parse, in group order
Unparsable(members) ==
    SelectSeq(members, LAMBDA m : parse_quantity(m.quantity) = None)

RECURSIVE SumInUnit(_, _, _)
\* the quantities of the members from the k-th on, each converted into the
\* unit t, added up
SumInUnit(members, t, k) ==
    IF k > Len(members) THEN Rat(0, 1)
    ELSE RatAdd(RatOfFloat(convert_quantity(
                    FloatOfRat(parse_quantity(members[k].quantity)[1]),
                    Strip(Lower(members[k].unit)), t)[1]),
                SumInUnit(members, t, k + 1))

\* C22: for a merge group of more than one member, of which at least one
\* has a quantity that parses, the unit of the merged record is the
\* lower-cased, trimmed unit of the first member whose quantity parses;
\* where every parsable member converts into that unit, the merged quantity
\* is the rounded sum of the converted quantities of the parsable members
\* alone; and each member whose quantity does not parse leaves one "Could
\* not parse quantity" note, in group order, and a merged record all the
\* same.
C22_FirstParsedUnitIsTarget ==
    pc = "prioritize" =>
        \A g \in DOMAIN ingredient_groups :
            LET members == ingredient_groups[g].members
                parsable == Parsable(members)
                skipped == Unparsable(members)
                t == Strip(Lower(parsable[1].unit))
                merged == optimized_ingredients[g]
            IN  (Len(members) > 1 /\ parsable # << >>) =>
                  /\ merged.unit = t
                  /\ (\A m \in DOMAIN parsable :
                         ~Mismatch(Strip(Lower(parsable[m].unit)), t))
                       => merged.quantity
                              = FloatStr(RoundTotal(SumInUnit(parsable, t, 1)))
                  /\ SelectSeq(merged.optimization_notes,
                         LAMBDA note : SubSeq(note, 1, 14) = "Could not pars")
                       = [m \in DOMAIN skipped |->
                             "Could not parse quantity: " \o skipped[m].quantity]

\* a group whose first member, in cups, has a quantity that does not parse
\* and whose second member is 2 tbsp: merged into 2.0 tbsp with the one note
C22_Witness ==
    /\ pc = "prioritize"
    /\ \E g \in DOMAIN ingredient_groups :
          LET members == ingredient_groups[g].members
          IN  /\ Len(members) = 2
              /\ parse_quantity(members[1].quantity) = None
              /\ members[1].unit = "cup"
              /\ members[2].unit = "tbsp"
              /\ optimized_ingredients[g].unit = "tbsp"
              /\ optimized_ingredients[g].quantity = "2.0"
              /\ optimized_ingredients[g].optimization_notes
                     = << "Could not parse quantity: 1/0" >>

\* C23: the extraction returns exactly one record per distinct lower-cased,
\* trimmed parsed name, in the order in which the names appear first when
\* the plan is walked Monday..Sunday and breakfast, lunch, dinner; a blank
\* line gives no record; and the recipes of a record are the
\* "Day mealType: RecipeName" references of the lines of its name, one per
\* occurrence, in the order of the walk.  The parse of the i-th line of the
\* walk is the i-th call of the parser.
C23_OneRecordPerName ==
    pc = "classify" =>
        LET lines == PlanLines
            parsed == { i \in DOMAIN lines : parse_log[i].result # None }
            KeyAt(i) == Strip(Lower(parse_log[i].result[1].name))
            keys == { KeyAt(i) : i \in parsed }
            FirstAt(key) ==
                CHOOSE i \in parsed :
                    /\ KeyAt(i) = key
                    /\ \A j \in parsed : j < i => KeyAt(j) # key
            KeyOf(r) == Strip(Lower(all_ingredients[r].name))
        IN  /\ Len(parse_log) = Len(lines)
            /\ \A i \in DOMAIN lines : parse_log[i].text = lines[i].ingredient
            /\ Len(all_ingredients) = Cardinality(keys)
            /\ { KeyOf(r) : r \in DOMAIN all_ingredients } = keys
            /\ \A r, q \in DOMAIN all_ingredients :
                  r < q => FirstAt(KeyOf(r)) < FirstAt(KeyOf(q))
            /\ \A i \in DOMAIN lines :
                  Strip(lines[i].ingredient) = ""
                      => \A r \in DOMAIN all_ingredients :
                            all_ingredients[r].original_text
                                # lines[i].ingredient
            /\ \A r \in DOMAIN all_ingredients :
                  LET same == SelectSeq([i \in DOMAIN lines |-> i],
                                  LAMBDA i : /\ i \in parsed
                                             /\ KeyAt(i) = KeyOf(r))
                  IN  all_ingredients[r].recipes
                          = [n \in DOMAIN same |-> lines[same[n]].recipe]

\* one record extracted from two lines of one name, with the references of
\* the Monday dinner and of the Tuesday breakfast in that order
C23_Witness ==
    /\ pc = "classify"
    /\ Len(PlanLines) = 2
    /\ Len(all_ingredients) = 1
    /\ all_ingredients[1].recipes
           = << "Monday dinner: Bread", "Tuesday breakfast: Pancakes" >>

\* the table of a unit, where it has one
TableOf(u) ==
    IF u \in volume_units THEN volume_conversions
    ELSE IF u \in weight_units THEN weight_conversions
    ELSE EmptyDict

\* two spellings of one unit: different texts of one table with one factor
Synonyms(a, b) ==
    /\ a # b
    /\ a \in DOMAIN TableOf(a)
    /\ b \in DOMAIN TableOf(a)
    /\ TableOf(a)[a] = TableOf(a)[b]

\* C24: _convert_quantity(q, a, b) is q when a = b or when both are count
\* units; q * factor(a) / factor(b) when both are volume units or both are
\* weight units, 2 cups being 32 tablespoons; None in every other case; a
\* conversion between two spellings of one unit returns q; and a conversion
\* from a to b and back to a returns q.
C24_ConversionLaw ==
    /\ \A i \in DOMAIN conversion :
          LET q == conversion[i].quantity
              a == conversion[i].from_unit
              b == conversion[i].to_unit
              result == conversion[i].result
          IN  /\ (a = b \/ (a \in count_units /\ b \in count_units))
                    => result = Some(q)
              /\ (a # b /\ b \in DOMAIN TableOf(a))
                    => result = Some(FDiv(FMul(q, TableOf(a)[a]),
                                          TableOf(a)[b]))
              /\ (q = FInt(2) /\ a = "cups" /\ b = "tablespoons")
                    => result = Some(FInt(32))
              /\ Synonyms(a, b) => result = Some(q)
              /\ ~(\/ a = b
                   \/ a \in count_units /\ b \in count_units
                   \/ b \in DOMAIN TableOf(a))
                    => result = None
    /\ Len(conversion) = 2 => conversion[2].result = Some(conversion[1].quantity)

\* the lines of the plan that are not blank, in the order of the walk
NonBlankLines ==
    SelectSeq(PlanLines, LAMBDA line : Strip(line.ingredient) # "")

RECURSIVE Concat(_, _)
\* the sequences of a sequence from the k-th on, one after the other
Concat(seqs, k) ==
    IF k > Len(seqs) THEN << >> ELSE seqs[k] \o Concat(seqs, k + 1)

\* how often a value occurs in a sequence
Occurrences(seq, v) == Cardinality({ i \in DOMAIN seq : seq[i] = v })

\* C25: in the returned list, the recipes of all items together hold one
\* "Day mealType: RecipeName" entry per non-blank ingredient line of the
\* plan, each reference as often as the plan has non-blank lines in that
\* meal; and the recipes of a merged record are the recipes of its members,
\* one member after the other in group order.
C25_ProvenanceConserved ==
    pc = "done" =>
        LET entries == Concat([i \in DOMAIN AllItems |-> AllItems[i].recipes], 1)
            lines == [i \in DOMAIN NonBlankLines |-> NonBlankLines[i].recipe]
        IN  /\ Len(entries) = Len(lines)
            /\ \A r \in Range(lines) \cup Range(entries) :
                  Occurrences(entries, r) = Occurrences(lines, r)
            /\ \A g \in DOMAIN ingredient_groups :
                  LET members == ingredient_groups[g].members
                  IN  Len(members) > 1 =>
                        optimized_ingredients[g].recipes
                            = Concat([m \in DOMAIN members |->
                                         members[m].recipes], 1)

\* C26: over the calls of one cart, two calls with equal plans and different
\* user_preferences, None or a dict, were handed equal tiers.
C26_PreferencesIgnored ==
    \A i, j \in DOMAIN returned :
        (/\ returned[i].weekly_plan = returned[j].weekly_plan
         /\ returned[i].user_preferences # returned[j].user_preferences)
            => TiersOfList(returned[i].shopping_list)
                   = TiersOfList(returned[j].shopping_list)

\* two calls returned for one plan with flour in it, the first without
\* preferences and the second with flour excluded, and flour is on both
\* lists
C26_Witness ==
    /\ Len(returned) >= 2
    /\ returned[1].weekly_plan = returned[2].weekly_plan
    /\ returned[1].user_preferences = None
    /\ returned[2].user_preferences = [exclude |-> << "flour" >>]
    /\ Len(returned[2].shopping_list.essential) = 1
    /\ returned[2].shopping_list.essential[1].name = "flour"

\* the name of the consolidated record of a group: the normalized name for
\* a merged group, the raw name for a group of one
ConsolidatedName(group) ==
    IF Len(group.members) > 1 THEN group.key ELSE group.members[1].name

\* C27: in the returned list, the tier of every consolidated record follows
\* from its category and from the priority the FreshnessAnalyzer computes
\* for the record's own name (the normalized name for a merged group, the
\* raw name for a group of one): the item is in fresh_priority exactly when
\* the category is neither essential nor pantry_staples and that priority
\* is high, and in shelf_stable exactly when the category is neither and
\* that priority is not high, whatever priority the Classifier gave.
C27_AnalyzerPriorityBuckets ==
    pc = "done" =>
        \A g \in DOMAIN optimized_ingredients :
            LET record == optimized_ingredients[g]
                name == ConsolidatedName(ingredient_groups[g])
                analyzed == analyze_freshness(name).freshness_priority
                item == ShoppingItem(record)
                uncategorized ==
                    record.category \notin { "essential", "pantry_staples" }
            IN  /\ record.name = name
                /\ \E r \in DOMAIN freshness_prioritized :
                      /\ Proj(freshness_prioritized[r]) = Proj(record)
                      /\ freshness_prioritized[r].freshness_priority = analyzed
                /\ item \in Range(shopping_list[1].fresh_priority)
                      <=> (uncategorized /\ analyzed = "high")
                /\ item \in Range(shopping_list[1].shelf_stable)
                      <=> (uncategorized /\ analyzed # "high")

\* a merged group whose first member the Classifier put in shelf_stable with
\* priority low, whose normalized name the analyzer finds high, and whose
\* item is in the fresh_priority tier
C27_Witness ==
    /\ pc = "done"
    /\ \E g \in DOMAIN optimized_ingredients :
          /\ Len(ingredient_groups[g].members) > 1
          /\ optimized_ingredients[g].category = "shelf_stable"
          /\ optimized_ingredients[g].freshness_priority = "low"
          /\ analyze_freshness(ingredient_groups[g].key)
                 .freshness_priority = "high"
          /\ ShoppingItem(optimized_ingredients[g])
                 \in Range(shopping_list[1].fresh_priority)

\* C28: a merged record has the category and the importance of the first
\* member of its group and the group's normalized name as its name, whatever
\* the classifications of the other members; the item made of it shows that
\* category.
C28_FirstMemberClassifies ==
    pc = "done" =>
        \A g \in DOMAIN ingredient_groups :
            LET members == ingredient_groups[g].members
                merged == optimized_ingredients[g]
            IN  Len(members) > 1 =>
                  /\ merged.category = members[1].category
                  /\ merged.importance = members[1].importance
                  /\ merged.name = ingredient_groups[g].key
                  /\ \E i \in DOMAIN AllItems :
                        /\ AllItems[i].name = ingredient_groups[g].key
                        /\ AllItems[i].recipes = merged.recipes
                        /\ AllItems[i].category = members[1].category
                        /\ AllItems[i].importance = members[1].importance

\* a merged group of two members of different categories, shelf_stable
\* first and essential second, whose item shows shelf_stable in the
\* fresh_priority tier, where the same two members in the other order
\* give an essential record
C28_Witness ==
    /\ pc = "done"
    /\ \E g \in DOMAIN ingredient_groups :
          LET members == ingredient_groups[g].members
          IN  /\ Len(members) = 2
              /\ members[1].category = "shelf_stable"
              /\ members[2].category = "essential"
              /\ \E i \in DOMAIN shopping_list[1].fresh_priority :
                    /\ shopping_list[1].fresh_priority[i].name
                           = ingredient_groups[g].key
                    /\ shopping_list[1].fresh_priority[i].category
                           = "shelf_stable"
              /\ TierOf(optimize_ingredient_group(ingredient_groups[g].key,
                            << members[2], members[1] >>)) = "essential"

\* C29: in every returned list, notes and estimated_cost of every item are
\* None and total_estimated_cost is None, also for an item whose record has
\* notes of the optimizer.
C29_DiagnosticsDropped ==
    pc = "done" =>
        /\ shopping_list[1].total_estimated_cost = None
        /\ \A i \in DOMAIN AllItems :
              /\ AllItems[i].notes = None
              /\ AllItems[i].estimated_cost = None

\* a list with the item of a merged record for which the optimizer noted
\* units it could not convert
C29_Witness ==
    /\ pc = "done"
    /\ \E g \in DOMAIN optimized_ingredients :
          /\ Len(ingredient_groups[g].members) > 1
          /\ optimized_ingredients[g].optimization_notes
                 = << "Could not convert 1.0 pound to cup" >>
          /\ ShoppingItem(optimized_ingredients[g]) \in Range(AllItems)

RECURSIVE MergeKeysFrom(_, _)
\* the normalized names of the records from the k-th on, in their order
MergeKeysFrom(records, k) ==
    IF k > Len(records) THEN << >>
    ELSE << normalize_ingredient_name(records[k].name) >>
             \o MergeKeysFrom(records, k + 1)

\* the normalized names of the classified records, in their order
MergeKeys == MergeKeysFrom(classified_ingredients, 1)

\* C30: the optimizer emits one consolidated record per distinct normalized
\* name of the extracted records, in the order in which the normalized
\* names appear first, the record of a name being made of all the records
\* of that name; and the returned list has one item per consolidated
\* record, so no two items come from records of one normalized name.
C30_OneItemPerMergeKey ==
    pc = "done" =>
        LET keys == MergeKeys
            FirstKeyAt(key) ==
                CHOOSE i \in DOMAIN keys :
                    /\ keys[i] = key
                    /\ \A j \in 1..(i - 1) : keys[j] # key
            Same(key) == SelectSeq([i \in DOMAIN keys |-> i],
                                   LAMBDA i : keys[i] = key)
        IN  /\ Len(optimized_ingredients) = Cardinality(Range(keys))
            /\ Len(ingredient_groups) = Len(optimized_ingredients)
            /\ \A g \in DOMAIN ingredient_groups :
                  LET key == ingredient_groups[g].key
                      same == Same(key)
                  IN  /\ key \in Range(keys)
                      /\ ingredient_groups[g].members
                             = [n \in DOMAIN same |->
                                   classified_ingredients[same[n]]]
                      /\ \A h \in DOMAIN ingredient_groups :
                            g < h => FirstKeyAt(key)
                                         < FirstKeyAt(ingredient_groups[h].key)
                      /\ optimized_ingredients[g].recipes
                             = Concat([n \in DOMAIN same |->
                                   classified_ingredients[same[n]].recipes], 1)
            /\ Len(AllItems) = Len(optimized_ingredients)
            /\ \A g \in DOMAIN optimized_ingredients :
                  Cardinality({ i \in DOMAIN AllItems :
                      AllItems[i] = ShoppingItem(optimized_ingredients[g]) })
                    = Cardinality({ h \in DOMAIN optimized_ingredients :
                          ShoppingItem(optimized_ingredients[h])
                              = ShoppingItem(optimized_ingredients[g]) })

\* two extracted records of different names and one normalized name, one
\* consolidated record and one item
C30_Witness ==
    /\ pc = "done"
    /\ Len(classified_ingredients) = 2
    /\ classified_ingredients[1].name # classified_ingredients[2].name
    /\ MergeKeys[1] = MergeKeys[2]
    /\ Len(optimized_ingredients) = 1
    /\ Len(AllItems) = 1
    /\ AllItems[1].name = MergeKeys[1]

=============================================================================
